---- MODULE Spec2Model ----
(***************************************************************************)
(* Model of the streaming video-analysis coordinator of edit-mind          *)
(* (python/analyze.py): FrameProcessor.extract_frames_streaming_generator, *)
(* VideoAnalyzer.analyze and the micro-batch scheduler it drives.          *)
(*                                                                         *)
(* One run of VideoAnalyzer.analyze() is one behaviour.  The video, the    *)
(* configuration and the behaviour of the plugins are chosen in Init; the  *)
(* actions follow the control flow of the code, one action per step at     *)
(* which another part of the program (a plugin, the progress callback,    *)
(* the caller) can observe the coordinator's state.                        *)
(***************************************************************************)
EXTENDS Integers, Sequences, FiniteSets, TLC

(***************************************************************************)
(* Bounds of the model.                                                    *)
(***************************************************************************)
MaxNativeFrames == 4
MaxBuffer == 2
MaxCallSeconds == 120
TickSeconds == 60
MaxDeviations == 1
MaxActivityFrames == 2
MaxObjectCount == 2
MaxMonitorClock == 11
MaxCleanupCalls == 3
MaxSegments == 2
MaxProgressUpdates == 4
MaxJobs == 3
MaxConcurrent == 2
MaxReindexRequests == 3
MaxTranscribeCalls == 3
MaxModelAccesses == 3

(***************************************************************************)
(* Program constants.                                                      *)
(***************************************************************************)
plugin_timeout_seconds == 60
DefaultFps == 30
lazy_plugin_init == TRUE

\* load_plugins: the registration order of plugin_module_map.
PluginModuleMap ==
    << "ObjectDetectionPlugin", "FaceRecognitionPlugin", "ShotTypePlugin",
       "DominantColorPlugin", "EnvironmentPlugin", "ActivityPlugin",
       "EmotionDetectionPlugin", "TextDetectionPlugin" >>

PluginNames == { PluginModuleMap[i] : i \in 1..Len(PluginModuleMap) }

\* load_plugins appends plugin instances (cls(config_dict)), never tuples.
DefsAreTuples == FALSE

\* _should_run_plugin: critical_plugins.
critical_plugins == { "ObjectDetectionPlugin", "FaceRecognitionPlugin" }

\* The annotation keys each plugin's analyze_frame writes into the frame
\* analysis it returns.  ActivityPlugin returns its argument unchanged and
\* EmotionDetectionPlugin only edits the entries of 'faces'.
PluginKeys(p) ==
    CASE p = "ObjectDetectionPlugin" -> {"objects"}
      [] p = "FaceRecognitionPlugin" -> {"faces"}
      [] p = "ShotTypePlugin" -> {"shot_type"}
      [] p = "DominantColorPlugin" -> {"dominant_color", "color_palette"}
      [] p = "EnvironmentPlugin" -> {"environment_caption"}
      [] p = "TextDetectionPlugin" -> {"detected_text"}
      [] OTHER -> {}

\* analyze_frame is called with (frame, frame_analysis, video_path).  The
\* overrides of ShotTypePlugin and ActivityPlugin take only (frame,
\* frame_analysis): every call of them raises TypeError.
AcceptsVideoPath(p) == p \notin {"ShotTypePlugin", "ActivityPlugin"}

\* Plugins that define analyze_scene (hasattr(plugin, 'analyze_scene')).
HasAnalyzeScene(p) == p \in {"DominantColorPlugin", "EnvironmentPlugin"}

\* AnalysisConfig.__post_init__: the default plugin_skip_interval;
\* dict.get(plugin_name, 1) for the names that are absent.
DefaultSkipInterval ==
    [p \in PluginNames |->
        CASE p = "DominantColorPlugin" -> 2
          [] p = "TextDetectionPlugin" -> 3
          [] p = "EmotionDetectionPlugin" -> 2
          [] OTHER -> 1]

\* main(): the --fast map.
FastSkipInterval ==
    [p \in PluginNames |->
        CASE p = "TextDetectionPlugin" -> 5
          [] p = "EmotionDetectionPlugin" -> 3
          [] p = "DominantColorPlugin" -> 3
          [] OTHER -> 1]

\* A settings.json that sets an interval of 0 for one plugin and even names
\* a critical plugin.
ZeroSkipInterval ==
    [p \in PluginNames |->
        CASE p = "TextDetectionPlugin" -> 0
          [] p = "ObjectDetectionPlugin" -> 3
          [] OTHER -> 1]

\* Frame rates and sample intervals (in tenths of a second) of the runs.
FpsChoices == {1, 3}
IntervalTenthsChoices == {5, 20}

\* <<fps, interval in tenths of a second, native frame count>> of a ten
\* second clip at 30 fps sampled every 2 s, and of a short clip whose every
\* native frame is sampled.
ScenarioVideo == <<30, 20, 300>>
ShortVideo == <<3, 5, 2>>

\* The object labels analyze_activities looks at ('boat' stands for the
\* labels it treats as water objects).
ActivityLabels == {"person", "bicycle", "motorcycle", "car", "boat"}

\* The keys of a frame dict yielded by the generator and of a fresh record
\* built by _process_micro_batch.
FrameDataKeys ==
    {"frame", "timestamp_ms", "end_timestamp_ms", "frame_idx", "scale_factor",
     "original_size"}
RecordBaseKeys == {"start_time_ms", "end_time_ms", "duration_ms", "frame_idx"}

VARIABLES
    pc,                 \* position of analyze() in its control flow
    video_exists,       \* Path(video_path).exists()
    can_open,           \* cap.isOpened()
    fps,                \* CAP_PROP_FPS of the video
    interval_tenths,    \* config.sample_interval_seconds * 10
    total_frames,       \* CAP_PROP_FRAME_COUNT of the video
    frame_buffer_limit, \* config.frame_buffer_limit
    plugin_skip_interval, \* config.plugin_skip_interval
    plugin_mode,        \* how each plugin's analyze_frame behaves
    setup_raises,       \* plugins whose setup() raises
    read_fails_at,      \* native position whose cap.read() fails, or -1
    batch_faults,       \* unexpected exceptions still to be raised in a batch
    plugin_definitions, \* self.plugin_definitions
    plugins,            \* self.plugins
    gen_state,          \* generator: "new", "open", "closed"
    gen_pos,            \* generator: frame_idx of the next read
    yielded,            \* frame_idx of the frames yielded so far
    batch,              \* the scheduler's batch list of frame dicts
    is_final,           \* the batch being processed is the final one
    results,            \* _process_micro_batch: results
    pi,                 \* _process_micro_batch: index of the current plugin
    fi,                 \* _process_micro_batch: index of the current frame
    call_elapsed,       \* seconds the analyze_frame call in flight has run
    batch_results,      \* _process_and_cleanup_batch: batch_results
    frame_analyses,     \* _analyze_streaming_optimized: frame_analyses
    plugin_frame_counters, \* self.plugin_frame_counters
    plugin_metrics,     \* number of timings in self.plugin_metrics[name]
    plugin_errors,      \* self.plugin_errors
    plugin_timeouts,    \* self.plugin_timeouts
    frames_analyzed,    \* self.frames_analyzed
    total_sampled,      \* pbar.total
    pbar_n,             \* pbar.n
    callbacks,          \* the invocations of the progress callback
    setup_calls,        \* number of setup() calls per plugin
    frame_calls,        \* <<plugin, frame_idx, outcome>> of analyze_frame calls
    failed_frames,      \* frame_idx of the frames of the batches that raised
    post_calls,         \* <<plugin, method>> invoked by _run_post_processing
    result_error,       \* VideoAnalysisResult.error ("" for None)
    result_frames,      \* VideoAnalysisResult.frame_analysis
    call_log,           \* the plugin methods invoked so far, in call order
    open_handles,       \* the cv2.VideoCapture handles opened and not released
    scene_raises,       \* <<plugin, method>> of the scene-level calls that raise
    video_has_faces,    \* the video shows faces FaceRecognitionPlugin detects
    callback_raises,    \* when the progress callback raises: never, always, updates
    scene_analysis,     \* plugins whose get_results is in scene_analysis
    act_pc,             \* position of the activity stage of post-processing
    n_frames,           \* len(frame_analyses) handed to analyze_activities
    objects_missing,    \* some record of frame_analyses lacks 'objects'
    object_counts,      \* Counter of the confident object labels
    detected_activities, \* VideoAnalysisResult.detected_activities
    primary_activity,   \* summary['primary_activity']
    mon_pc,             \* "idle" or "running": the MemoryMonitor is in use
    mon_now,            \* the reading of time.time(), in seconds
    mon_created,        \* time.time() when the MemoryMonitor was constructed
    enable_aggressive_gc, \* AnalysisConfig.enable_aggressive_gc
    last_cleanup_time,  \* MemoryMonitor.last_cleanup_time
    cleanup_count,      \* MemoryMonitor.cleanup_count
    cleanup_calls,      \* the force_cleanup calls made so far, in order
    t_pc,               \* position inside TranscriptionService.transcribe
    t_video_exists,     \* Path(video_path).exists()
    has_callback,       \* a progress_callback was passed
    output_writable,    \* open(output_file, "w") succeeds
    model_plan,         \* what the Whisper model does with this video
    model_loaded,       \* TranscriptionService._model is not None
    stderr,             \* what sys.stderr is bound to
    progress_updates,   \* the percentages passed to progress_callback
    last_progress,      \* ProgressTracker.last_progress
    seg_idx,            \* segments consumed from the model's iterator
    processed_duration, \* processed_duration of transcribe
    output_file,        \* content of the file at output_path ({} if none)
    t_result,           \* the TranscriptionResult returned ({} if none)
    t_error,            \* the exception transcribe raised ("" if none)
    max_concurrent_analyses, \* MessageHandler.max_concurrent_analyses
    analysis_semaphore, \* free permits of MessageHandler.analysis_semaphore
    active_analyses,    \* ServiceState.active_analyses
    total_analyses,     \* ServiceMetrics.total_analyses
    failed_analyses,    \* ServiceMetrics.failed_analyses
    job_pc,             \* position of the handler of each analyze request
    job_path,           \* video_path_normalized of each analyze request
    job_messages,       \* terminal messages handed to _send_message per job_id
    job_outcome,        \* how the workflow of each request ended
    job_finishes,       \* finish_analysis calls made by each workflow
    reindex_lock,       \* MessageHandler.reindex_lock is held
    reindex_pc,         \* position of the handler of each reindex_faces request
    reindex_messages,   \* terminal messages sent to each reindex request
    reindex_outcome,    \* how batch_add_faces_from_folder ended per request
    batch_starts,       \* calls of batch_add_faces_from_folder so far
    sys_stderr,         \* sys.stderr: 0 the process's stream, c the interceptor of call c
    call_pc,            \* position of each concurrent transcribe call
    original_stderr,    \* the local original_stderr of each call (-1 unset)
    call_outcome,       \* each call returned or raised
    has_model,          \* TranscriptionService._model is not None
    model_loading,      \* TranscriptionService._model_loading
    model_cached,       \* is_model_cached()
    access_pc           \* position of each access of the model property

vars ==
    << pc, video_exists, can_open, fps, interval_tenths, total_frames,
       frame_buffer_limit, plugin_skip_interval, plugin_mode, setup_raises,
       read_fails_at, batch_faults, plugin_definitions, plugins, gen_state,
       gen_pos, yielded, batch, is_final, results, pi, fi, call_elapsed,
       batch_results, frame_analyses, plugin_frame_counters, plugin_metrics,
       plugin_errors, plugin_timeouts, frames_analyzed, total_sampled, pbar_n,
       callbacks, setup_calls, frame_calls, failed_frames, post_calls,
       result_error, result_frames, call_log, open_handles, scene_raises,
       video_has_faces, callback_raises,
       scene_analysis, act_pc, n_frames, objects_missing, object_counts,
       detected_activities, primary_activity, mon_pc, mon_now, mon_created,
       enable_aggressive_gc, last_cleanup_time, cleanup_count, cleanup_calls,
       t_pc, t_video_exists, has_callback, output_writable, model_plan,
       model_loaded, stderr, progress_updates, last_progress, seg_idx,
       processed_duration, output_file, t_result, t_error,
       max_concurrent_analyses, analysis_semaphore, active_analyses,
       total_analyses, failed_analyses, job_pc, job_path, job_messages,
       job_outcome, job_finishes,
       reindex_lock, reindex_pc, reindex_messages, reindex_outcome,
       batch_starts,
       sys_stderr, call_pc, original_stderr, call_outcome,
       has_model, model_loading, model_cached, access_pc >>

sceneVars == << scene_analysis >>

activityVars ==
    << act_pc, n_frames, objects_missing, object_counts, detected_activities,
       primary_activity >>

monitorVars ==
    << mon_pc, mon_now, mon_created, enable_aggressive_gc, last_cleanup_time,
       cleanup_count, cleanup_calls >>

transcribeVars ==
    << t_pc, t_video_exists, has_callback, output_writable, model_plan,
       model_loaded, stderr, progress_updates, last_progress, seg_idx,
       processed_duration, output_file, t_result, t_error >>

serviceVars ==
    << max_concurrent_analyses, analysis_semaphore, active_analyses,
       total_analyses, failed_analyses, job_pc, job_path, job_messages,
       job_outcome, job_finishes >>

reindexVars ==
    << reindex_lock, reindex_pc, reindex_messages, reindex_outcome,
       batch_starts >>

stderrVars ==
    << sys_stderr, call_pc, original_stderr, call_outcome >>

loaderVars ==
    << has_model, model_loading, model_cached, access_pc >>

handlerVars == << serviceVars, reindexVars, stderrVars, loaderVars >>

sideVars == << activityVars, monitorVars, transcribeVars, handlerVars >>

configVars ==
    << video_exists, can_open, fps, interval_tenths, total_frames,
       frame_buffer_limit, plugin_skip_interval, plugin_mode, setup_raises,
       read_fails_at, plugin_definitions, scene_raises, video_has_faces,
       callback_raises >>

(***************************************************************************)
(* Pure helpers.                                                           *)
(***************************************************************************)
Max(a, b) == IF a >= b THEN a ELSE b
Min(a, b) == IF a <= b THEN a ELSE b

\* Python's round() of the non-negative rational num/den: ties go to the
\* even integer.
RoundHalfEven(num, den) ==
    LET q == num \div den
        r == num % den
    IN  IF 2 * r < den THEN q
        ELSE IF 2 * r > den THEN q + 1
        ELSE IF q % 2 = 0 THEN q ELSE q + 1

\* int(fps * sample_interval_seconds): truncation of the product.
IntFpsTimesInterval(f, tenths) == (f * tenths) \div 10

\* A step that rounds the product instead of truncating it.
GenSampleInterval_Rounds(f, tenths) == Max(1, RoundHalfEven(f * tenths, 10))

\* extract_frames_streaming_generator: sample_interval = max(1, int(...)).
GenSampleInterval(f, tenths) == Max(1, IntFpsTimesInterval(f, tenths))

\* extract_frames_streaming_generator: timestamp_ms of native position idx.
TimestampMs(idx, f) == RoundHalfEven(idx * 1000, f)

\* A frame_data whose window end is not clamped to the frame count.
FrameData_NoClamp(idx, f, tenths, total) ==
    [ frame_idx |-> idx,
      timestamp_ms |-> TimestampMs(idx, f),
      end_timestamp_ms |-> TimestampMs(idx + GenSampleInterval(f, tenths), f),
      keys |-> FrameDataKeys ]

\* extract_frames_streaming_generator: the frame_data dict of position idx.
FrameData(idx, f, tenths, total) ==
    [ frame_idx |-> idx,
      timestamp_ms |-> TimestampMs(idx, f),
      end_timestamp_ms |->
          TimestampMs(Min(idx + GenSampleInterval(f, tenths), total), f),
      keys |-> FrameDataKeys ]

\* _process_micro_batch: the fresh record built for frame dict b.
NewRecord(b) ==
    [ frame_idx |-> b.frame_idx,
      start_time_ms |-> b.timestamp_ms,
      end_time_ms |-> b.end_timestamp_ms,
      duration_ms |-> b.end_timestamp_ms - b.timestamp_ms,
      keys |-> RecordBaseKeys ]

\* A cleanup that leaves the pixel buffers in the frame dicts.
CleanupBatchFrames_KeepsFrame(b) == b

\* _cleanup_batch_frames: frame_data.pop('frame', None) for every frame dict.
CleanupBatchFrames(b) ==
    [i \in 1..Len(b) |-> [b[i] EXCEPT !.keys = @ \ {"frame"}]]

\* An extend that puts the new items in front.
Extend_Prepends(list, items) == items \o list

\* list.extend
Extend(list, items) == list \o items

\* CallbackTqdm.update: the arguments handed to the callback.
ProgressCall(n, total) ==
    [ percent |-> Min(100, (n * 100) \div total),
      frames_done |-> n,
      frames_total |-> total ]

\* _create_error_result / the normal return of analyze().
ErrorResultFrames == << >>

\* One invocation of a plugin method; frame_idx is -1 for the methods that
\* are not about one frame.
LogEntry(method, p, idx) == [method |-> method, plugin |-> p, frame_idx |-> idx]

(***************************************************************************)
(* The runs of the model: a video, a configuration, and at most            *)
(* MaxDeviations departures from a fault-free run with the default skip    *)
(* intervals.                                                              *)
(***************************************************************************)
\* The plugins whose analyze_frame departs from the normal behaviour in some
\* run (a critical plugin, a plugin with a skip interval and an
\* analyze_scene, the last plugin of the chain), and those whose setup() does.
FaultyCandidates ==
    {"ObjectDetectionPlugin", "DominantColorPlugin", "TextDetectionPlugin"}
SetupFailureCandidates == {"ObjectDetectionPlugin", "EnvironmentPlugin"}

Deviations ==
    { <<"mode", p, m>> : p \in FaultyCandidates, m \in {"flaky", "slow"} }
    \cup { <<"setup", p, "raises">> : p \in SetupFailureCandidates }
    \cup { <<"read", "fails", k>> : k \in 0..MaxNativeFrames }
    \cup { <<"skip", "config", "fast">>, <<"skip", "config", "zero">>,
           <<"batch", "any", "raises">>, <<"load", "all", "fails">>,
           <<"video", "path", "missing">>, <<"video", "cap", "unopenable">> }

\* A progress callback that raises on every invocation, or on every
\* invocation made by the progress bar but not on the initial one.
CallbackDeviations ==
    { <<"callback", "raises", "always">>, <<"callback", "raises", "updates">> }

\* The scene-level calls of _run_post_processing that raise in some run.
SceneDeviations ==
    { <<"scene", p, m>> : p \in {"DominantColorPlugin", "EnvironmentPlugin"},
                          m \in {"analyze_scene", "get_results"} }

\* The videos of the runs.
Videos == FpsChoices \X IntervalTenthsChoices \X (0..MaxNativeFrames)

RECURSIVE SubsetsUpTo(_, _)
SubsetsUpTo(S, k) ==
    IF k = 0 THEN { {} }
    ELSE LET smaller == SubsetsUpTo(S, k - 1)
         IN  smaller \cup { T \cup {x} : T \in smaller, x \in S }

\* No two departures of the same kind about the same thing.
Consistent(D) ==
    \A d \in D, e \in D : (d[1] = e[1] /\ d[2] = e[2]) => d = e

ModeOf(D, p) ==
    IF \E d \in D : d[1] = "mode" /\ d[2] = p
    THEN (CHOOSE d \in D : d[1] = "mode" /\ d[2] = p)[3]
    ELSE "ok"

ReadFailureOf(D) ==
    IF \E d \in D : d[1] = "read"
    THEN (CHOOSE d \in D : d[1] = "read")[3]
    ELSE -1

SkipIntervalOf(D) ==
    IF <<"skip", "config", "fast">> \in D THEN FastSkipInterval
    ELSE IF <<"skip", "config", "zero">> \in D THEN ZeroSkipInterval
    ELSE DefaultSkipInterval

CallbackModeOf(D) ==
    IF <<"callback", "raises", "always">> \in D THEN "always"
    ELSE IF <<"callback", "raises", "updates">> \in D THEN "updates"
    ELSE "never"

\* The plugins whose import or construction fails in load_plugins.
LoadFailuresOf(D) ==
    IF <<"load", "all", "fails">> \in D THEN PluginNames ELSE {}

\* load_plugins: the instances of the plugins that could be imported and
\* constructed, in the order of plugin_module_map.
LoadPlugins(failing) ==
    SelectSeq(PluginModuleMap, LAMBDA p : p \notin failing)

ZeroOf(S) == [p \in S |-> 0]

\* The activity stage of post-processing before it has anything to do.
ActivityIdle ==
    /\ act_pc = "idle"
    /\ n_frames = 0
    /\ objects_missing = FALSE
    /\ object_counts = ZeroOf(ActivityLabels)
    /\ detected_activities = << >>
    /\ primary_activity = ""

\* MemoryMonitor.__init__: cleanup_count = 0, last_cleanup_time = time.time().
MonitorCreated(running, created, enabled) ==
    /\ mon_pc = IF running THEN "running" ELSE "idle"
    /\ mon_now = created
    /\ mon_created = created
    /\ enable_aggressive_gc = enabled
    /\ last_cleanup_time = created
    /\ cleanup_count = 0
    /\ cleanup_calls = << >>

MonitorIdle == MonitorCreated(FALSE, 0, TRUE)

\* No transcribe call is in progress: TranscriptionService.__init__ leaves
\* _model None, sys.stderr is the process's stream, no output was written.
NoModelPlan ==
    [segments |-> << >>, total_duration |-> 0, fails_at |-> -1,
     exc |-> "", message |-> << >>]

TranscribeCalled(position, exists, callback, writable, plan) ==
    /\ t_pc = position
    /\ t_video_exists = exists
    /\ has_callback = callback
    /\ output_writable = writable
    /\ model_plan = plan
    /\ model_loaded = FALSE
    /\ stderr = "original"
    /\ progress_updates = << >>
    /\ last_progress = -1
    /\ seg_idx = 0
    /\ processed_duration = 0
    /\ output_file = {}
    /\ t_result = {}
    /\ t_error = ""

TranscribeIdle == TranscribeCalled("idle", FALSE, FALSE, FALSE, NoModelPlan)

\* The analyze requests a run receives, one per connection and numbered in
\* the order of their arrival, and the normalized paths they name.
Jobs == 1..MaxJobs
VideoPaths == {"a.mp4", "b.mp4"}

\* An AnalysisService constructed with the given max_concurrent_analyses
\* that has received no analyze request yet.
ServiceCreated(limit) ==
    /\ max_concurrent_analyses = limit
    /\ analysis_semaphore = limit
    /\ active_analyses = {}
    /\ total_analyses = 0
    /\ failed_analyses = 0
    /\ job_pc = [j \in Jobs |-> "unsent"]
    /\ job_path = [j \in Jobs |-> ""]
    /\ job_messages = [j \in Jobs |-> << >>]
    /\ job_outcome = [j \in Jobs |-> ""]
    /\ job_finishes = [j \in Jobs |-> 0]

ServiceIdle == ServiceCreated(1)

\* The reindex requests a run receives, numbered in the order of arrival.
ReindexRequests == 1..MaxReindexRequests

\* No reindex_faces request was received: the lock is free.
ReindexIdle ==
    /\ reindex_lock = FALSE
    /\ reindex_pc = [r \in ReindexRequests |-> "unsent"]
    /\ reindex_messages = [r \in ReindexRequests |-> << >>]
    /\ reindex_outcome = [r \in ReindexRequests |-> ""]
    /\ batch_starts = 0

\* The transcribe calls handed to the executor's threads.
TranscribeCalls == 1..MaxTranscribeCalls

\* No transcribe call has started: sys.stderr is the process's stream.
StderrIdle ==
    /\ sys_stderr = 0
    /\ call_pc = [c \in TranscribeCalls |-> "queued"]
    /\ original_stderr = [c \in TranscribeCalls |-> -1]
    /\ call_outcome = [c \in TranscribeCalls |-> ""]

\* The accesses of TranscriptionService.model, one per transcribe call.
ModelAccesses == 1..MaxModelAccesses

\* TranscriptionService.__init__: no model, no load in progress.
LoaderCreated(cached) ==
    /\ has_model = FALSE
    /\ model_loading = FALSE
    /\ model_cached = cached
    /\ access_pc = [a \in ModelAccesses |-> "idle"]

LoaderIdle == LoaderCreated(FALSE)

HandlerIdle == ServiceIdle /\ ReindexIdle /\ StderrIdle /\ LoaderIdle

SideIdle == ActivityIdle /\ MonitorIdle /\ TranscribeIdle /\ HandlerIdle

\* The state after construction of a VideoAnalyzer for one of the given
\* videos, with at most MaxDeviations of the given departures.
InitOf(videos, deviations, faces) ==
    /\ pc = "start"
    /\ \E v \in videos :
        /\ fps = v[1]
        /\ interval_tenths = v[2]
        /\ total_frames = v[3]
    /\ frame_buffer_limit \in 1..MaxBuffer
    /\ video_has_faces \in faces
    /\ \E D \in SubsetsUpTo(deviations, MaxDeviations) :
        /\ Consistent(D)
        /\ Cardinality({d \in D : d[1] = "read"}) <= 1
        /\ Cardinality({d \in D : d[1] = "skip"}) <= 1
        /\ video_exists = (<<"video", "path", "missing">> \notin D)
        /\ can_open = (<<"video", "cap", "unopenable">> \notin D)
        /\ plugin_mode = [p \in PluginNames |-> ModeOf(D, p)]
        /\ setup_raises = {p \in PluginNames : <<"setup", p, "raises">> \in D}
        /\ read_fails_at = ReadFailureOf(D)
        /\ plugin_skip_interval = SkipIntervalOf(D)
        /\ batch_faults = IF <<"batch", "any", "raises">> \in D THEN 1 ELSE 0
        /\ plugin_definitions = LoadPlugins(LoadFailuresOf(D))
        /\ scene_raises = { <<d[2], d[3]>> : d \in {e \in D : e[1] = "scene"} }
        /\ callback_raises = CallbackModeOf(D)
    /\ plugins = << >>
    /\ gen_state = "new"
    /\ gen_pos = 0
    /\ yielded = << >>
    /\ batch = << >>
    /\ is_final = FALSE
    /\ results = << >>
    /\ pi = 0
    /\ fi = 0
    /\ call_elapsed = 0
    /\ batch_results = << >>
    /\ frame_analyses = << >>
    /\ plugin_frame_counters = ZeroOf(PluginNames)
    /\ plugin_metrics = ZeroOf(PluginNames)
    /\ plugin_errors = ZeroOf(PluginNames)
    /\ plugin_timeouts = ZeroOf(PluginNames)
    /\ frames_analyzed = 0
    /\ total_sampled = 0
    /\ pbar_n = 0
    /\ callbacks = << >>
    /\ setup_calls = ZeroOf(PluginNames)
    /\ frame_calls = {}
    /\ failed_frames = {}
    /\ post_calls = {}
    /\ result_error = ""
    /\ result_frames = << >>
    /\ call_log = << >>
    /\ open_handles = {}
    /\ scene_analysis = {}

Init == InitOf(Videos, Deviations, {FALSE}) /\ SideIdle

(***************************************************************************)
(* VideoAnalyzer.analyze: the opening callback and the existence check.    *)
(***************************************************************************)
\* _create_error_result(str(e)): returned from the except clause of analyze.
CreateErrorResult(error) ==
    /\ result_error' = error
    /\ result_frames' = ErrorResultFrames
    /\ pc' = "done"

\* An analyze() without the existence check.
VideoMissing_Never == FALSE

\* 'if not Path(self.video_path).exists()'
VideoMissing == ~video_exists

\* analyze() up to the existence check.  The initial progress_callback(0,
\* 0.0, 0, 0) is made before the try statement: when it raises, analyze()
\* ends by raising and returns nothing.
AnalyzeStart ==
    /\ pc = "start"
    /\ callbacks' = Append(callbacks,
                           [percent |-> 0, frames_done |-> 0, frames_total |-> 0])
    /\ IF callback_raises = "always"
       THEN /\ pc' = "raised"
            /\ UNCHANGED <<result_error, result_frames>>
       ELSE IF VideoMissing
       THEN CreateErrorResult("FileNotFoundError")
       ELSE /\ pc' = "setup"
            /\ UNCHANGED <<result_error, result_frames>>
    /\ UNCHANGED <<configVars, sideVars, open_handles, sceneVars, call_log, batch_faults, plugins, gen_state, gen_pos,
                   yielded, batch, is_final, results, pi, fi, call_elapsed,
                   batch_results, frame_analyses, plugin_frame_counters,
                   plugin_metrics, plugin_errors, plugin_timeouts,
                   frames_analyzed, total_sampled, pbar_n, setup_calls,
                   frame_calls, failed_frames, post_calls>>

(***************************************************************************)
(* VideoAnalyzer._setup_plugins.                                           *)
(***************************************************************************)
\* self.plugins after _setup_plugins.  Only the branch for (name, cls,
\* config) tuples appends a plugin after its setup() succeeded; the other
\* two branches assign the whole list first and only log a failing setup().
PluginsAfterSetup(defs, raising) ==
    IF lazy_plugin_init /\ defs # << >> /\ DefsAreTuples
    THEN SelectSeq(defs, LAMBDA p : p \notin raising)
    ELSE defs

\* A setup pass that calls setup() a second time on the first plugin.
SetupLog_RepeatsFirst(defs) ==
    [i \in 1..Len(defs) |-> LogEntry("setup", defs[i], -1)]
        \o (IF defs = << >> THEN << >>
            ELSE << LogEntry("setup", defs[1], -1) >>)

\* _setup_plugins: 'for plugin in self.plugins: plugin.setup()', raising or
\* not.
SetupLog(defs) == [i \in 1..Len(defs) |-> LogEntry("setup", defs[i], -1)]

SetupPlugins ==
    /\ pc = "setup"
    /\ plugins' = PluginsAfterSetup(plugin_definitions, setup_raises)
    /\ call_log' = call_log \o SetupLog(plugin_definitions)
    /\ setup_calls' =
           [p \in PluginNames |->
               IF \E i \in 1..Len(plugin_definitions) : plugin_definitions[i] = p
               THEN setup_calls[p] + 1 ELSE setup_calls[p]]
    /\ pc' = "open"
    /\ UNCHANGED <<configVars, sideVars, open_handles, sceneVars, batch_faults, gen_state, gen_pos, yielded,
                   batch, is_final, results, pi, fi, call_elapsed,
                   batch_results, frame_analyses, plugin_frame_counters,
                   plugin_metrics, plugin_errors, plugin_timeouts,
                   frames_analyzed, total_sampled, pbar_n, callbacks,
                   frame_calls, failed_frames, post_calls, result_error,
                   result_frames>>

(***************************************************************************)
(* VideoAnalyzer._analyze_streaming_optimized: the expected sample count.  *)
(***************************************************************************)
\* What the scheduler's own VideoCapture reports: a capture that cannot be
\* opened answers 0 to every property, and 'or 30.0' replaces a zero fps.
SchedFps == IF can_open THEN fps ELSE DefaultFps
SchedTotalFrames == IF can_open THEN total_frames ELSE 0

\* sample_interval = int(fps * sample_interval_seconds), not clamped.
SchedSampleInterval == IntFpsTimesInterval(SchedFps, interval_tenths)

\* An estimate without the added one.
TotalSampled_NoPlusOne(total, step) == total \div step

\* total_sampled = (total_frames // sample_interval) + 1
TotalSampled(total, step) == (total \div step) + 1

\* The scheduler opens a capture of its own to read fps and frame count and
\* releases it after computing total_sampled.  The ZeroDivisionError of
\* 'total_frames // sample_interval' leaves the function before
\* cap.release(): the handle then stays open unless the interpreter happens
\* to finalize the abandoned capture object before analyze() returns.
OpenStream ==
    /\ pc = "open"
    /\ IF SchedSampleInterval = 0
       THEN /\ CreateErrorResult("ZeroDivisionError")
            /\ UNCHANGED total_sampled
            /\ \E finalized \in BOOLEAN :
                   open_handles' =
                       IF can_open /\ ~finalized
                       THEN open_handles \cup {"scheduler"}
                       ELSE open_handles
       ELSE /\ total_sampled' = TotalSampled(SchedTotalFrames, SchedSampleInterval)
            /\ pc' = "pull"
            /\ UNCHANGED <<result_error, result_frames, open_handles>>
    /\ UNCHANGED <<configVars, sideVars, sceneVars, call_log, batch_faults, plugins, gen_state, gen_pos,
                   yielded, batch, is_final, results, pi, fi, call_elapsed,
                   batch_results, frame_analyses, plugin_frame_counters,
                   plugin_metrics, plugin_errors, plugin_timeouts,
                   frames_analyzed, pbar_n, callbacks, setup_calls,
                   frame_calls, failed_frames, post_calls>>

(***************************************************************************)
(* FrameProcessor.extract_frames_streaming_generator, driven by the for    *)
(* loop of _analyze_streaming_optimized.                                   *)
(***************************************************************************)
\* The first next(): the capture cannot be opened or reports no frames.
\* The ValueError leaves the generator (its finally releases the capture),
\* is re-raised by the scheduler and ends analyze() in its except clause.
GeneratorRaises ==
    /\ pc = "pull"
    /\ gen_state = "new"
    /\ ~can_open \/ total_frames <= 0
    /\ gen_state' = "closed"
    /\ CreateErrorResult("ValueError")
    /\ UNCHANGED <<configVars, sideVars, open_handles, sceneVars, call_log, batch_faults, plugins, gen_pos, yielded, batch,
                   is_final, results, pi, fi, call_elapsed, batch_results,
                   frame_analyses, plugin_frame_counters, plugin_metrics,
                   plugin_errors, plugin_timeouts, frames_analyzed,
                   total_sampled, pbar_n, callbacks, setup_calls, frame_calls,
                   failed_frames, post_calls>>

GeneratorReady ==
    /\ gen_state \in {"new", "open"}
    /\ can_open
    /\ total_frames > 0

\* A generator whose range includes the position total_frames.
PullFrame_ReadsPastEnd ==
    /\ pc = "pull"
    /\ GeneratorReady
    /\ gen_pos <= total_frames
    /\ gen_pos # read_fails_at
    /\ gen_state' = "open"
    /\ open_handles' = open_handles \cup {"generator"}
    /\ batch' = Append(batch, FrameData(gen_pos, fps, interval_tenths, total_frames))
    /\ yielded' = Append(yielded, gen_pos)
    /\ gen_pos' = gen_pos + GenSampleInterval(fps, interval_tenths)
    /\ IF Len(batch') >= frame_buffer_limit
       THEN pc' = "dispatch"
       ELSE pc' = "pull"
    /\ is_final' = FALSE
    /\ UNCHANGED <<configVars, sideVars, sceneVars, call_log, batch_faults, plugins, results, pi, fi,
                   call_elapsed, batch_results, frame_analyses,
                   plugin_frame_counters, plugin_metrics, plugin_errors,
                   plugin_timeouts, frames_analyzed, total_sampled, pbar_n,
                   callbacks, setup_calls, frame_calls, failed_frames,
                   post_calls, result_error, result_frames>>

\* A frame is read and yielded; the loop body appends it to the batch and
\* hands the batch over once it holds frame_buffer_limit frames.
PullFrame ==
    /\ pc = "pull"
    /\ GeneratorReady
    /\ gen_pos < total_frames
    /\ gen_pos # read_fails_at
    /\ gen_state' = "open"
    /\ open_handles' = open_handles \cup {"generator"}
    /\ batch' = Append(batch, FrameData(gen_pos, fps, interval_tenths, total_frames))
    /\ yielded' = Append(yielded, gen_pos)
    /\ gen_pos' = gen_pos + GenSampleInterval(fps, interval_tenths)
    /\ IF Len(batch') >= frame_buffer_limit
       THEN pc' = "dispatch"
       ELSE pc' = "pull"
    /\ is_final' = FALSE
    /\ UNCHANGED <<configVars, sideVars, sceneVars, call_log, batch_faults, plugins, results, pi, fi,
                   call_elapsed, batch_results, frame_analyses,
                   plugin_frame_counters, plugin_metrics, plugin_errors,
                   plugin_timeouts, frames_analyzed, total_sampled, pbar_n,
                   callbacks, setup_calls, frame_calls, failed_frames,
                   post_calls, result_error, result_frames>>

\* An end of the loop that forgets the frames still waiting in the batch.
SourceEnds_DropsPartialBatch ==
    /\ pc = "pull"
    /\ GeneratorReady
    /\ gen_pos >= total_frames \/ gen_pos = read_fails_at
    /\ gen_state' = "closed"
    /\ open_handles' = open_handles \ {"generator"}
    /\ pc' = "post"
    /\ is_final' = FALSE
    /\ UNCHANGED <<configVars, sideVars, sceneVars, call_log, batch_faults, plugins, gen_pos, yielded, batch,
                   results, pi, fi, call_elapsed, batch_results,
                   frame_analyses, plugin_frame_counters, plugin_metrics,
                   plugin_errors, plugin_timeouts, frames_analyzed,
                   total_sampled, pbar_n, callbacks, setup_calls, frame_calls,
                   failed_frames, post_calls, result_error, result_frames>>

\* The range is exhausted, or cap.read() fails and the generator breaks:
\* the for loop ends, and a non-empty batch is processed as the final one.
SourceEnds ==
    /\ pc = "pull"
    /\ GeneratorReady
    /\ gen_pos >= total_frames \/ gen_pos = read_fails_at
    /\ gen_state' = "closed"
    /\ open_handles' = open_handles \ {"generator"}
    /\ IF batch # << >>
       THEN pc' = "dispatch" /\ is_final' = TRUE
       ELSE pc' = "post" /\ is_final' = FALSE
    /\ UNCHANGED <<configVars, sideVars, sceneVars, call_log, batch_faults, plugins, gen_pos, yielded, batch,
                   results, pi, fi, call_elapsed, batch_results,
                   frame_analyses, plugin_frame_counters, plugin_metrics,
                   plugin_errors, plugin_timeouts, frames_analyzed,
                   total_sampled, pbar_n, callbacks, setup_calls, frame_calls,
                   failed_frames, post_calls, result_error, result_frames>>

(***************************************************************************)
(* VideoAnalyzer._process_and_cleanup_batch and _process_micro_batch.      *)
(***************************************************************************)
\* A batch start that also resets the skip counters.
StartBatch_ResetsCounters ==
    /\ pc = "dispatch"
    /\ batch_results' = << >>
    /\ results' = [i \in 1..Len(batch) |-> NewRecord(batch[i])]
    /\ pi' = 1
    /\ fi' = 1
    /\ pc' = "plugin_loop"
    /\ plugin_frame_counters' = [p \in PluginNames |-> 0]
    /\ UNCHANGED <<configVars, sideVars, open_handles, sceneVars, call_log, batch_faults, plugins, gen_state, gen_pos,
                   yielded, batch, is_final, call_elapsed, frame_analyses,
                   plugin_metrics, plugin_errors,
                   plugin_timeouts, frames_analyzed, total_sampled, pbar_n,
                   callbacks, setup_calls, frame_calls, failed_frames,
                   post_calls, result_error, result_frames>>

\* _process_and_cleanup_batch starts: batch_results = [], and
\* _process_micro_batch builds one fresh record per frame of the batch.
StartBatch ==
    /\ pc = "dispatch"
    /\ batch_results' = << >>
    /\ results' = [i \in 1..Len(batch) |-> NewRecord(batch[i])]
    /\ pi' = 1
    /\ fi' = 1
    /\ pc' = "plugin_loop"
    /\ UNCHANGED <<configVars, sideVars, open_handles, sceneVars, call_log, batch_faults, plugins, gen_state, gen_pos,
                   yielded, batch, is_final, call_elapsed, frame_analyses,
                   plugin_frame_counters, plugin_metrics, plugin_errors,
                   plugin_timeouts, frames_analyzed, total_sampled, pbar_n,
                   callbacks, setup_calls, frame_calls, failed_frames,
                   post_calls, result_error, result_frames>>

\* A skip policy that looks up the interval of every plugin, critical or not.
ShouldRunPlugin_NoCriticalSet(p, counters, intervals) ==
    LET counted == [counters EXCEPT ![p] = @ + 1]
    IN  [ counters |-> counted,
          verdict |->
              IF intervals[p] = 0 THEN "raise"
              ELSE IF counted[p] % intervals[p] = 0 THEN "run"
              ELSE "skip" ]

\* _should_run_plugin(plugin, frame_idx): the counters it leaves and its
\* verdict; "raise" is the ZeroDivisionError of '% skip_interval'.
ShouldRunPlugin(p, counters, intervals) ==
    IF p \in critical_plugins
    THEN [counters |-> counters, verdict |-> "run"]
    ELSE LET counted == [counters EXCEPT ![p] = @ + 1]
         IN  [ counters |-> counted,
               verdict |->
                   IF intervals[p] = 0 THEN "raise"
                   ELSE IF counted[p] % intervals[p] = 0 THEN "run"
                   ELSE "skip" ]

\* The loop indices after frame fi of plugin pi: 'for plugin in
\* self.plugins' outside, 'for i in range(len(batch))' inside.
NextPi == IF fi < Len(batch) THEN pi ELSE pi + 1
NextFi == IF fi < Len(batch) THEN fi + 1 ELSE 1

\* A batch failure that ends the streaming loop without cleanup.
BatchFails_StopsStreaming ==
    /\ failed_frames' =
           failed_frames \cup { batch[i].frame_idx : i \in 1..Len(batch) }
    /\ pc' = "post"
    /\ UNCHANGED <<results, pi, fi, call_elapsed, batch_results, pbar_n,
                   callbacks, frames_analyzed>>

\* An exception leaves _process_micro_batch: the assignment to
\* batch_results does not happen, pbar.update is not reached, and the
\* except clause of _process_and_cleanup_batch logs it.
BatchFails ==
    /\ failed_frames' =
           failed_frames \cup { batch[i].frame_idx : i \in 1..Len(batch) }
    /\ pc' = "cleanup"
    /\ UNCHANGED <<results, pi, fi, call_elapsed, batch_results, pbar_n,
                   callbacks, frames_analyzed>>

\* One iteration of the inner loop up to the call of _safe_plugin_call.
PluginStep ==
    /\ pc = "plugin_loop"
    /\ pi <= Len(plugins)
    /\ LET decision == ShouldRunPlugin(plugins[pi], plugin_frame_counters,
                                       plugin_skip_interval)
       IN  /\ plugin_frame_counters' = decision.counters
           /\ CASE decision.verdict = "raise" -> BatchFails
                [] decision.verdict = "skip" ->
                       /\ pi' = NextPi
                       /\ fi' = NextFi
                       /\ pc' = "plugin_loop"
                       /\ UNCHANGED <<results, call_elapsed, batch_results,
                                      pbar_n, callbacks, frames_analyzed,
                                      failed_frames>>
                [] OTHER ->
                       /\ pc' = "call"
                       /\ call_elapsed' = 0
                       /\ UNCHANGED <<results, pi, fi, batch_results, pbar_n,
                                      callbacks, frames_analyzed,
                                      failed_frames>>
    /\ UNCHANGED <<configVars, sideVars, open_handles, sceneVars, call_log, batch_faults, plugins, gen_state, gen_pos,
                   yielded, batch, is_final, frame_analyses, plugin_metrics,
                   plugin_errors, plugin_timeouts, total_sampled, setup_calls,
                   frame_calls, post_calls, result_error, result_frames>>

\* An exception other than the ZeroDivisionError is raised in the loop
\* outside the inner try.
UnexpectedBatchError ==
    /\ pc = "plugin_loop"
    /\ batch_faults > 0
    /\ batch_faults' = batch_faults - 1
    /\ BatchFails
    /\ UNCHANGED <<configVars, sideVars, open_handles, sceneVars, call_log, plugins, gen_state, gen_pos, yielded, batch,
                   is_final, frame_analyses, plugin_frame_counters,
                   plugin_metrics, plugin_errors, plugin_timeouts,
                   total_sampled, setup_calls, frame_calls, post_calls,
                   result_error, result_frames>>

\* The outcomes plugin p's analyze_frame can have.
CallOutcomes(p) ==
    IF ~AcceptsVideoPath(p) THEN {"raise"}
    ELSE IF plugin_mode[p] = "flaky" THEN {"ok", "raise"}
    ELSE {"ok"}

\* The analyze_frame call in flight goes on running.  Nothing in
\* _safe_plugin_call bounds its duration.
CallRuns ==
    /\ pc = "call"
    /\ AcceptsVideoPath(plugins[pi])
    /\ plugin_mode[plugins[pi]] = "slow"
    /\ call_elapsed + TickSeconds <= MaxCallSeconds
    /\ call_elapsed' = call_elapsed + TickSeconds
    /\ UNCHANGED <<pc, configVars, sideVars, open_handles, sceneVars, call_log, batch_faults, plugins, gen_state, gen_pos,
                   yielded, batch, is_final, results, pi, fi, batch_results,
                   frame_analyses, plugin_frame_counters, plugin_metrics,
                   plugin_errors, plugin_timeouts, frames_analyzed,
                   total_sampled, pbar_n, callbacks, setup_calls, frame_calls,
                   failed_frames, post_calls, result_error, result_frames>>

\* A _safe_plugin_call that hands back the plugin's keys also when the
\* call raised.
SafePluginCall_MergesOnRaise(p, frame_analysis, outcome) ==
    [frame_analysis EXCEPT !.keys = @ \cup PluginKeys(p)]

\* _safe_plugin_call: what it returns for the frame analysis it was given.
\* A call that returns hands back the analysis with the plugin's keys; a
\* call that raises is answered with the analysis as it was passed in.
SafePluginCall(p, frame_analysis, outcome) ==
    IF outcome = "ok"
    THEN [frame_analysis EXCEPT !.keys = @ \cup PluginKeys(p)]
    ELSE frame_analysis

\* A loop that drops what the plugin returned.
Update_Discards(record, plugin_result) == record

\* results[i].update(plugin_result)
Update(record, plugin_result) ==
    [record EXCEPT !.keys = @ \cup plugin_result.keys]

\* The call returns or raises; _safe_plugin_call records it and the loop
\* merges the result into results[i].
CallReturns ==
    /\ pc = "call"
    /\ \E outcome \in CallOutcomes(plugins[pi]) :
        LET p == plugins[pi]
            plugin_result == SafePluginCall(p, results[fi], outcome)
        IN  /\ results' = [results EXCEPT ![fi] = Update(@, plugin_result)]
            /\ plugin_metrics' =
                   IF outcome = "ok"
                   THEN [plugin_metrics EXCEPT ![p] = @ + 1]
                   ELSE plugin_metrics
            /\ plugin_timeouts' =
                   IF outcome = "raise"
                   THEN [plugin_timeouts EXCEPT ![p] = @ + 1]
                   ELSE plugin_timeouts
            /\ frame_calls' =
                   frame_calls \cup {<<p, batch[fi].frame_idx, outcome>>}
            /\ call_log' =
                   Append(call_log,
                          LogEntry("analyze_frame", p, batch[fi].frame_idx))
    /\ pi' = NextPi
    /\ fi' = NextFi
    /\ pc' = "plugin_loop"
    /\ call_elapsed' = 0
    /\ UNCHANGED <<configVars, sideVars, open_handles, sceneVars, batch_faults, plugins, gen_state, gen_pos,
                   yielded, batch, is_final, batch_results, frame_analyses,
                   plugin_frame_counters, plugin_errors, frames_analyzed,
                   total_sampled, pbar_n, callbacks, setup_calls,
                   failed_frames, post_calls, result_error, result_frames>>

\* An update that reports the increment instead of the running count.
PbarUpdate_ReportsIncrement(n) ==
    /\ pbar_n' = pbar_n + n
    /\ callbacks' = Append(callbacks, ProgressCall(n, total_sampled))

\* CallbackTqdm.update(n): tqdm adds n to self.n, then the callback is
\* invoked with the running count (self.total is never 0).  An exception
\* of the callback is caught and logged here, so a raising invocation
\* leaves the same state as a returning one.
PbarUpdate(n) ==
    /\ pbar_n' = pbar_n + n
    /\ callbacks' = Append(callbacks, ProgressCall(pbar_n + n, total_sampled))

\* A return that loses the record of the last frame of the batch.
BatchReturns_DropsLastRecord ==
    /\ pc = "plugin_loop"
    /\ pi > Len(plugins)
    /\ batch_results' = SubSeq(results, 1, Len(results) - 1)
    /\ PbarUpdate(Len(results))
    /\ frames_analyzed' = frames_analyzed + Len(results)
    /\ pc' = "cleanup"
    /\ UNCHANGED <<configVars, sideVars, open_handles, sceneVars, call_log, batch_faults, plugins, gen_state, gen_pos,
                   yielded, batch, is_final, results, pi, fi, call_elapsed,
                   frame_analyses, plugin_frame_counters, plugin_metrics,
                   plugin_errors, plugin_timeouts, total_sampled, setup_calls,
                   frame_calls, failed_frames, post_calls, result_error,
                   result_frames>>

\* _process_micro_batch returns its results: batch_results is assigned,
\* the progress bar is updated and frames_analyzed is increased.
BatchReturns ==
    /\ pc = "plugin_loop"
    /\ pi > Len(plugins)
    /\ batch_results' = results
    /\ PbarUpdate(Len(results))
    /\ frames_analyzed' = frames_analyzed + Len(results)
    /\ pc' = "cleanup"
    /\ UNCHANGED <<configVars, sideVars, open_handles, sceneVars, call_log, batch_faults, plugins, gen_state, gen_pos,
                   yielded, batch, is_final, results, pi, fi, call_elapsed,
                   frame_analyses, plugin_frame_counters, plugin_metrics,
                   plugin_errors, plugin_timeouts, total_sampled, setup_calls,
                   frame_calls, failed_frames, post_calls, result_error,
                   result_frames>>

\* The finally clause of _process_and_cleanup_batch.
CleanupBatch ==
    /\ pc = "cleanup"
    /\ batch' = CleanupBatchFrames(batch)
    /\ pc' = "extend"
    /\ UNCHANGED <<configVars, sideVars, open_handles, sceneVars, call_log, batch_faults, plugins, gen_state, gen_pos,
                   yielded, is_final, results, pi, fi, call_elapsed,
                   batch_results, frame_analyses, plugin_frame_counters,
                   plugin_metrics, plugin_errors, plugin_timeouts,
                   frames_analyzed, total_sampled, pbar_n, callbacks,
                   setup_calls, frame_calls, failed_frames, post_calls,
                   result_error, result_frames>>

\* A loop body that forgets batch.clear().
ExtendResults_KeepsBatch ==
    /\ pc = "extend"
    /\ frame_analyses' = Extend(frame_analyses, batch_results)
    /\ results' = << >>
    /\ batch_results' = << >>
    /\ pi' = 0
    /\ fi' = 0
    /\ pc' = IF is_final THEN "post" ELSE "pull"
    /\ UNCHANGED <<configVars, sideVars, open_handles, sceneVars, call_log, batch_faults, plugins, gen_state, gen_pos,
                   yielded, batch, is_final, call_elapsed, plugin_frame_counters,
                   plugin_metrics, plugin_errors, plugin_timeouts,
                   frames_analyzed, total_sampled, pbar_n, callbacks,
                   setup_calls, frame_calls, failed_frames, post_calls,
                   result_error, result_frames>>

\* Back in _analyze_streaming_optimized: frame_analyses.extend(batch_results)
\* and batch.clear(); the loop goes on, or ends after the final batch.
ExtendResults ==
    /\ pc = "extend"
    /\ frame_analyses' = Extend(frame_analyses, batch_results)
    /\ batch' = << >>
    /\ results' = << >>
    /\ batch_results' = << >>
    /\ pi' = 0
    /\ fi' = 0
    /\ pc' = IF is_final THEN "post" ELSE "pull"
    /\ UNCHANGED <<configVars, sideVars, open_handles, sceneVars, call_log, batch_faults, plugins, gen_state, gen_pos,
                   yielded, is_final, call_elapsed, plugin_frame_counters,
                   plugin_metrics, plugin_errors, plugin_timeouts,
                   frames_analyzed, total_sampled, pbar_n, callbacks,
                   setup_calls, frame_calls, failed_frames, post_calls,
                   result_error, result_frames>>

(***************************************************************************)
(* VideoAnalyzer._run_post_processing and the normal return of analyze().  *)
(***************************************************************************)
\* The scene plugins of the run.
ScenePlugins(ps) == { ps[i] : i \in {j \in 1..Len(ps) : HasAnalyzeScene(ps[j])} }

\* First loop: analyze_scene, then get_results inside the same try.
RECURSIVE SceneLog(_, _)
SceneLog(ps, failed) ==
    IF ps = << >> THEN << >>
    ELSE LET p == Head(ps)
             entries ==
                 IF ~HasAnalyzeScene(p) THEN << >>
                 ELSE IF <<p, "analyze_scene">> \in failed
                 THEN << LogEntry("analyze_scene", p, -1) >>
                 ELSE << LogEntry("analyze_scene", p, -1),
                         LogEntry("get_results", p, -1) >>
         IN  entries \o SceneLog(Tail(ps), failed)

\* Second loop: hasattr(plugin, 'analyze_activities').
ActivitiesLog(ps) ==
    LET acts == SelectSeq(ps, LAMBDA p : p = "ActivityPlugin")
    IN  [i \in 1..Len(acts) |-> LogEntry("analyze_activities", acts[i], -1)]

\* Third loop: get_summary of every plugin.
SummaryLog(ps) == [i \in 1..Len(ps) |-> LogEntry("get_summary", ps[i], -1)]

\* The invocations _run_post_processing makes, in order.
PostProcessingLog(ps, failed) ==
    SceneLog(ps, failed) \o ActivitiesLog(ps) \o SummaryLog(ps)

\* The plugin methods _run_post_processing invokes on the plugins of the run.
PostProcessingCalls(ps, failed) ==
    LET log == PostProcessingLog(ps, failed)
    IN  { <<log[i].plugin, log[i].method>> : i \in 1..Len(log) }

\* get_results() of plugin p is non-empty at the end of the frame loop:
\* EnvironmentPlugin returns the scene context its analyze_scene sets,
\* DominantColorPlugin returns None unless one of its analyze_frame calls
\* recorded the colours of a frame, FaceRecognitionPlugin returns the faces
\* its analyze_frame calls have found, ActivityPlugin returns the still empty
\* list of activities, and the other plugins return None.
GetResultsNonEmpty(p, calls) ==
    LET returned == <<p, "ok">> \in { <<c[1], c[3]>> : c \in calls }
    IN  CASE p = "EnvironmentPlugin" -> TRUE
          [] p = "DominantColorPlugin" -> returned
          [] p = "FaceRecognitionPlugin" -> video_has_faces /\ returned
          [] OTHER -> FALSE

\* A first loop that stops collecting at the first plugin that raised.
SceneAnalysis_StopsAtFailure(ps, failed, calls) ==
    IF failed # {} THEN {}
    ELSE { p \in ScenePlugins(ps) : GetResultsNonEmpty(p, calls) }

\* scene_analysis after the first loop: 'if results: scene_analysis.update'
\* for every scene plugin neither of whose two calls raised.
SceneAnalysis(ps, failed, calls) ==
    { p \in ScenePlugins(ps) :
        /\ \A f \in failed : f[1] # p
        /\ GetResultsNonEmpty(p, calls) }

PostProcessing ==
    /\ pc = "post"
    /\ scene_analysis' = SceneAnalysis(plugins, scene_raises, frame_calls)
    /\ post_calls' = PostProcessingCalls(plugins, scene_raises)
    /\ call_log' = call_log \o PostProcessingLog(plugins, scene_raises)
    /\ result_error' = ""
    /\ result_frames' = frame_analyses
    /\ pc' = "done"
    /\ UNCHANGED <<configVars, sideVars, open_handles, batch_faults, plugins, gen_state,
                   gen_pos, yielded, batch, is_final, results, pi, fi,
                   call_elapsed, batch_results, frame_analyses,
                   plugin_frame_counters, plugin_metrics, plugin_errors,
                   plugin_timeouts, frames_analyzed, total_sampled, pbar_n,
                   callbacks, setup_calls, frame_calls, failed_frames>>

Next ==
    \/ AnalyzeStart
    \/ SetupPlugins
    \/ OpenStream
    \/ GeneratorRaises
    \/ PullFrame
    \/ SourceEnds
    \/ StartBatch
    \/ PluginStep
    \/ UnexpectedBatchError
    \/ CallRuns
    \/ CallReturns
    \/ BatchReturns
    \/ CleanupBatch
    \/ ExtendResults
    \/ PostProcessing

Spec == Init /\ [][Next]_vars

\* The runs on the ten second clip.
InitScenario == InitOf({ScenarioVideo}, Deviations, {FALSE}) /\ SideIdle
SpecScenario == InitScenario /\ [][Next]_vars

\* The runs on the short clip in which a scene-level call may raise and the
\* video may show faces.
InitScene ==
    InitOf({ShortVideo}, Deviations \cup SceneDeviations, BOOLEAN) /\ SideIdle
SpecScene == InitScene /\ [][Next]_vars

\* The keys of self.plugin_metrics: _safe_plugin_call inserts a plugin's
\* name at its first call, so the dict iterates in order of first call.
MetricsKeys(log) ==
    { log[i].plugin : i \in { j \in 1..Len(log) : log[j].method = "analyze_frame" } }

FirstCall(log, p) ==
    CHOOSE i \in 1..Len(log) :
        /\ log[i].method = "analyze_frame" /\ log[i].plugin = p
        /\ \A j \in 1..(i - 1) :
               ~(log[j].method = "analyze_frame" /\ log[j].plugin = p)

\* _get_plugin_performance_summary.  The sort and the return statement are
\* inside the for loop: the function returns the one-entry list of the first
\* plugin (in dict order) that has timings, and falls off its end, returning
\* None, when no plugin has any.  error_count reads self.plugin_errors.
GetPluginPerformanceSummary(log, metrics, errors, timeouts) ==
    LET timed == { p \in MetricsKeys(log) : metrics[p] > 0 }
    IN  IF timed = {}
        THEN [is_none |-> TRUE, entries |-> << >>]
        ELSE LET first == CHOOSE p \in timed :
                              \A q \in timed : FirstCall(log, p) <= FirstCall(log, q)
             IN  [is_none |-> FALSE,
                  entries |-> << [plugin_name |-> first,
                                  frames_processed |-> metrics[first],
                                  timeout_count |-> timeouts[first],
                                  error_count |-> errors[first]] >>]

\* The runs on a short clip whose progress callback may raise.
InitCallback ==
    InitOf({ShortVideo}, Deviations \cup CallbackDeviations, {FALSE}) /\ SideIdle
SpecCallback == InitCallback /\ [][Next]_vars

(***************************************************************************)
(* ActivityPlugin.analyze_activities as _run_post_processing calls it, and *)
(* the summary analyze() builds from its outcome.  A confidence c is kept  *)
(* as the integer c * 10 * total_frames, so that every ratio, threshold    *)
(* and product of the code is an integer.                                  *)
(***************************************************************************)
\* An Activity: its name and its confidence in units of 1 / (10 * total).
Activity(name, confidence) == [activity |-> name, confidence |-> confidence]

\* What _run_post_processing passes as scene_context: the scene_analysis
\* dict, on which the attribute access '.environment' raises AttributeError.
CoordinatorSceneContext == "dict"
EnvironmentRaises(scene_context) == scene_context = "dict"

\* _detect_swimming.  person_ratio <= 0.2 returns None before the scene
\* context is looked at; 'water_objects > 0 or scene_context.environment'
\* reads the context only when there are no water objects.
DetectSwimming(counts, total, scene_context) ==
    LET land_vehicles == counts["bicycle"] + counts["motorcycle"] + counts["car"]
        water == counts["boat"] > 0 \/ scene_context = "water"
        conf == (IF water THEN 6 * total ELSE 0)
                + (IF land_vehicles = 0 /\ 10 * counts["person"] > 4 * total
                   THEN 4 * total ELSE 0)
    IN  IF 10 * counts["person"] <= 2 * total
        THEN [raised |-> FALSE, found |-> << >>]
        ELSE IF counts["boat"] = 0 /\ EnvironmentRaises(scene_context)
        THEN [raised |-> TRUE, found |-> << >>]
        ELSE [raised |-> FALSE,
              found |-> IF conf > 3 * total
                        THEN << Activity("swimming", Min(conf, 10 * total)) >>
                        ELSE << >>]

\* _detect_biking.  'scene_context.environment == "urban" or ...' reads the
\* context whenever bicycle_ratio > 0.1.
DetectBiking(counts, total, scene_context) ==
    LET urban_objects == counts["car"]
        biking_conf ==
            Min(30 * counts["bicycle"], 8 * total)
            + (IF scene_context = "urban" \/ urban_objects > 0
               THEN 3 * total ELSE 0)
        mountain_conf == 20 * counts["bicycle"] + 4 * total
        biking == IF biking_conf > 3 * total
                  THEN << Activity("biking", Min(biking_conf, 10 * total)) >>
                  ELSE << >>
        mountain == IF 100 * urban_objects < 15 * total /\ mountain_conf > 4 * total
                    THEN << Activity("mountain_biking",
                                     Min(mountain_conf, 10 * total)) >>
                    ELSE << >>
    IN  IF 10 * counts["bicycle"] <= total
        THEN [raised |-> FALSE, found |-> << >>]
        ELSE IF EnvironmentRaises(scene_context)
        THEN [raised |-> TRUE, found |-> << >>]
        ELSE [raised |-> FALSE, found |-> biking \o mountain]

\* _detect_motorcycling
DetectMotorcycling(counts, total) ==
    IF 10 * counts["motorcycle"] > total
    THEN << Activity("motorcycling", Min(30 * counts["motorcycle"], 9 * total)) >>
    ELSE << >>

\* _detect_running
DetectRunning(counts, total) ==
    LET vehicles == counts["car"] + counts["bicycle"] + counts["motorcycle"]
    IN  IF /\ 10 * counts["person"] > 5 * total
           /\ 10 * counts["bicycle"] < total
           /\ 10 * counts["motorcycle"] < total
           /\ 10 * vehicles < 2 * total
        THEN << Activity("running", Min(7 * counts["person"], 10 * total)) >>
        ELSE << >>

\* _detect_driving
DetectDriving(counts, total) ==
    IF 10 * counts["car"] > 3 * total
    THEN << Activity("driving", Min(20 * counts["car"], 9 * total)) >>
    ELSE << >>

\* sorted(activities, key=lambda x: x.confidence, reverse=True): a stable
\* sort, equal confidences keep their order.
RECURSIVE SortedByConfidence(_)
SortedByConfidence(acts) ==
    IF acts = << >> THEN << >>
    ELSE LET front == SortedByConfidence(SubSeq(acts, 1, Len(acts) - 1))
             x == acts[Len(acts)]
             k == Cardinality({ i \in 1..Len(front) :
                                  front[i].confidence >= x.confidence })
         IN  SubSeq(front, 1, k) \o << x >> \o SubSeq(front, k + 1, Len(front))

\* analyze_activities(all_frame_analyses, scene_context): whether it raises
\* (KeyError for a record without 'objects', AttributeError for a scene
\* context without attributes) and the list it returns.
AnalyzeActivities(total, missing, counts, scene_context) ==
    LET swimming == DetectSwimming(counts, total, scene_context)
        biking == DetectBiking(counts, total, scene_context)
    IN  IF total = 0 THEN [raised |-> FALSE, activities |-> << >>]
        ELSE IF missing \/ swimming.raised \/ biking.raised
        THEN [raised |-> TRUE, activities |-> << >>]
        ELSE [raised |-> FALSE,
              activities |->
                  SortedByConfidence(
                      swimming.found \o biking.found
                      \o DetectMotorcycling(counts, total)
                      \o DetectRunning(counts, total)
                      \o DetectDriving(counts, total))]

\* The frame analyses handed to the activity stage: their number, whether a
\* record lacks 'objects', and the confident detections per label.
ActivityInputs ==
    /\ act_pc = "ready"
    /\ n_frames \in 0..MaxActivityFrames
    /\ objects_missing \in BOOLEAN
    /\ object_counts \in [ActivityLabels -> 0..MaxObjectCount]
    /\ n_frames = 0 =>
           /\ ~objects_missing
           /\ object_counts = ZeroOf(ActivityLabels)
    /\ detected_activities = << >>
    /\ primary_activity = ""

\* _run_post_processing, second loop: detected_activities stays [] when
\* analyze_activities raises or returns an empty list.
RunAnalyzeActivities ==
    /\ act_pc = "ready"
    /\ detected_activities' =
           AnalyzeActivities(n_frames, objects_missing, object_counts,
                             CoordinatorSceneContext).activities
    /\ act_pc' = "analyzed"
    /\ UNCHANGED <<n_frames, objects_missing, object_counts, primary_activity>>

\* analyze(): summary['primary_activity'].
BuildSummary ==
    /\ act_pc = "analyzed"
    /\ primary_activity' =
           IF detected_activities # << >>
           THEN detected_activities[1].activity
           ELSE "unknown"
    /\ act_pc' = "summarized"
    /\ UNCHANGED <<n_frames, objects_missing, object_counts,
                   detected_activities>>

mainVars ==
    << pc, configVars, batch_faults, plugins, gen_state, gen_pos, yielded,
       batch, is_final, results, pi, fi, call_elapsed, batch_results,
       frame_analyses, plugin_frame_counters, plugin_metrics, plugin_errors,
       plugin_timeouts, frames_analyzed, total_sampled, pbar_n, callbacks,
       setup_calls, frame_calls, failed_frames, post_calls, result_error,
       result_frames, call_log, open_handles, sceneVars >>

NextActivities ==
    \/ RunAnalyzeActivities /\ UNCHANGED <<mainVars, monitorVars, transcribeVars, handlerVars>>
    \/ BuildSummary /\ UNCHANGED <<mainVars, monitorVars, transcribeVars, handlerVars>>

InitActivities ==
    /\ InitOf({ShortVideo}, {}, {FALSE})
    /\ ActivityInputs
    /\ MonitorIdle
    /\ TranscribeIdle
    /\ HandlerIdle
SpecActivities == InitActivities /\ [][NextActivities]_vars

(***************************************************************************)
(* MemoryMonitor (analyze.py 175-204).  Time is the reading of time.time() *)
(* in whole seconds; the monitor is called at arbitrary moments with       *)
(* either value of 'aggressive'.                                           *)
(***************************************************************************)
CleanupRateLimitSeconds == 5
ClockSteps == {1, CleanupRateLimitSeconds}

\* force_cleanup: the two early returns decide whether gc.collect() runs.
ShouldCollect_NoRateLimit(enabled, aggressive, now, last) ==
    enabled

ShouldCollect(enabled, aggressive, now, last) ==
    /\ enabled
    /\ ~(~aggressive /\ (now - last) < CleanupRateLimitSeconds)

CleanupCall(at, aggressive, performed) ==
    [at |-> at, aggressive |-> aggressive, performed |-> performed]

ForceCleanup(aggressive) ==
    /\ mon_pc = "running"
    /\ Len(cleanup_calls) < MaxCleanupCalls
    /\ LET performed == ShouldCollect(enable_aggressive_gc, aggressive,
                                      mon_now, last_cleanup_time)
       IN  /\ last_cleanup_time' =
                  IF performed THEN mon_now ELSE last_cleanup_time
           /\ cleanup_count' =
                  IF performed THEN cleanup_count + 1 ELSE cleanup_count
           /\ cleanup_calls' =
                  Append(cleanup_calls,
                         CleanupCall(mon_now, aggressive, performed))
    /\ UNCHANGED <<mon_pc, mon_now, mon_created, enable_aggressive_gc>>

\* time.time() between two calls of the monitor.
ClockAdvances ==
    /\ mon_pc = "running"
    /\ \E d \in ClockSteps :
           /\ mon_now + d <= MaxMonitorClock
           /\ mon_now' = mon_now + d
    /\ UNCHANGED <<mon_pc, mon_created, enable_aggressive_gc,
                   last_cleanup_time, cleanup_count, cleanup_calls>>

NextMonitor ==
    \/ \E aggressive \in BOOLEAN :
           ForceCleanup(aggressive)
               /\ UNCHANGED <<mainVars, activityVars, transcribeVars, handlerVars>>
    \/ ClockAdvances /\ UNCHANGED <<mainVars, activityVars, transcribeVars, handlerVars>>

InitMonitor ==
    /\ InitOf({ShortVideo}, {}, {FALSE})
    /\ ActivityIdle
    /\ TranscribeIdle
    /\ HandlerIdle
    /\ \E created \in 0..1, enabled \in BOOLEAN :
           MonitorCreated(TRUE, created, enabled)
SpecMonitor == InitMonitor /\ [][NextMonitor]_vars

(***************************************************************************)
(* TranscriptionService.transcribe (transcribe.py 267-361).  Durations are *)
(* whole seconds.  An exception message is the sequence of its words, so   *)
(* that lower() and the 'in' tests act on what the message says.           *)
(***************************************************************************)
SegmentDurations == {1, 2}
TotalDurations == {0, 3}
TrackedPercents == {0, 50, 100}

\* The exceptions the model is made to raise: <<type, message>>.
ModelErrors ==
    { <<"RuntimeError", <<"No", "audio", "streams", "found">> >>,
      <<"RuntimeError", <<"Failed", "to", "load", "audio">> >>,
      <<"IndexError", <<"tuple", "index", "out", "of", "range">> >>,
      <<"IndexError", <<"list", "index", "out", "of", "range">> >>,
      <<"RuntimeError", <<"CUDA", "out", "of", "memory">> >>,
      <<"ValueError", <<"No", "audio", "streams", "found">> >> }

SegmentLists ==
    UNION { [1..n -> SegmentDurations] : n \in 0..MaxSegments }

\* fails_at = -1: the model never raises; 0: model.transcribe() raises;
\* k >= 1: the segment iterator raises when asked for its k-th segment.
ModelPlans ==
    { [segments |-> segs, total_duration |-> total, fails_at |-> -1,
       exc |-> "", message |-> << >>] :
          segs \in SegmentLists, total \in TotalDurations }
    \cup
    UNION { { [segments |-> segs, total_duration |-> total, fails_at |-> k,
               exc |-> e[1], message |-> e[2]] :
                  k \in 0..Len(segs), e \in ModelErrors } :
            segs \in SegmentLists, total \in TotalDurations }

\* str.lower() on the words of the messages above.
LowerWord(w) ==
    CASE w = "No" -> "no"
      [] w = "Failed" -> "failed"
      [] w = "CUDA" -> "cuda"
      [] OTHER -> w

Lower(message) == [i \in 1..Len(message) |-> LowerWord(message[i])]

\* The 'in' operator on strings, word by word.
Contains(needle, haystack) ==
    \E i \in 0..(Len(haystack) - Len(needle)) :
        SubSeq(haystack, i + 1, i + Len(needle)) = needle

NoAudioPhrases ==
    { <<"no", "audio", "streams">>, <<"failed", "to", "load", "audio">>,
      <<"tuple", "index", "out", "of", "range">> }

IndicatesNoAudio_CaseSensitive(message) ==
    \E phrase \in NoAudioPhrases : Contains(phrase, message)

IndicatesNoAudio(message) ==
    \E phrase \in NoAudioPhrases : Contains(phrase, Lower(message))

TranscriptionResult(text, segments, language) ==
    [text |-> text, segments |-> segments, language |-> language]

\* progress_callback(percent, elapsed) when a callback was passed.
ProgressCallback(percent) ==
    IF has_callback THEN Append(progress_updates, percent) ELSE progress_updates

\* int(percent_done): (processed_duration / total_duration) * 100, or 100.
PercentDone(processed, total) ==
    IF total > 0 THEN (processed * 100) \div total ELSE 100

\* Lines 268-282: the existence check, the first callback and the
\* replacement of sys.stderr.
TranscribeEnter_CallbackFirst ==
    /\ t_pc = "called"
    /\ progress_updates' = ProgressCallback(1)
    /\ IF ~t_video_exists
       THEN /\ t_error' = "FileNotFoundError"
            /\ t_pc' = "raised"
            /\ UNCHANGED stderr
       ELSE /\ stderr' = "interceptor"
            /\ t_pc' = "model"
            /\ UNCHANGED t_error
    /\ UNCHANGED <<t_video_exists, has_callback, output_writable, model_plan,
                   model_loaded, last_progress, seg_idx, processed_duration,
                   output_file, t_result>>

TranscribeEnter ==
    /\ t_pc = "called"
    /\ IF ~t_video_exists
       THEN /\ t_error' = "FileNotFoundError"
            /\ t_pc' = "raised"
            /\ UNCHANGED <<progress_updates, stderr>>
       ELSE /\ progress_updates' = ProgressCallback(1)
            /\ stderr' = "interceptor"
            /\ t_pc' = "model"
            /\ UNCHANGED t_error
    /\ UNCHANGED <<t_video_exists, has_callback, output_writable, model_plan,
                   model_loaded, last_progress, seg_idx, processed_duration,
                   output_file, t_result>>

\* Lines 342-357: the except clause for (RuntimeError, IndexError) and the
\* finally clause.  _save_result re-raises the IOError of a failed write.
HandleModelError ==
    /\ stderr' = "original"
    /\ IF /\ model_plan.exc \in {"RuntimeError", "IndexError"}
          /\ IndicatesNoAudio(model_plan.message)
       THEN LET result == TranscriptionResult(<< >>, << >>, "N/A")
            IN  IF output_writable
                THEN /\ output_file' = {result}
                     /\ progress_updates' = ProgressCallback(100)
                     /\ t_result' = {result}
                     /\ t_pc' = "returned"
                     /\ UNCHANGED t_error
                ELSE /\ t_error' = "IOError"
                     /\ t_pc' = "raised"
                     /\ UNCHANGED <<output_file, progress_updates, t_result>>
       ELSE /\ t_error' = model_plan.exc
            /\ t_pc' = "raised"
            /\ UNCHANGED <<output_file, progress_updates, t_result>>

\* Lines 289-301: self.model loads the model, model.transcribe() either
\* raises or returns the segment iterator and the info.
ModelTranscribe ==
    /\ t_pc = "model"
    /\ model_loaded' = TRUE
    /\ IF model_plan.fails_at = 0
       THEN HandleModelError
       ELSE /\ t_pc' = "segments"
            /\ UNCHANGED <<stderr, output_file, progress_updates, t_result,
                           t_error>>
    /\ UNCHANGED <<t_video_exists, has_callback, output_writable, model_plan,
                   last_progress, seg_idx, processed_duration>>

\* Lines 306-334: one turn of 'for seg in segments'.
NextSegment ==
    /\ t_pc = "segments"
    /\ \/ model_plan.fails_at = seg_idx + 1
       \/ seg_idx < Len(model_plan.segments)
    /\ IF model_plan.fails_at = seg_idx + 1
       THEN /\ HandleModelError
            /\ UNCHANGED <<seg_idx, processed_duration>>
       ELSE LET processed ==
                    processed_duration + model_plan.segments[seg_idx + 1]
            IN  /\ seg_idx' = seg_idx + 1
                /\ processed_duration' = processed
                /\ progress_updates' =
                       ProgressCallback(PercentDone(processed,
                                                    model_plan.total_duration))
                /\ UNCHANGED <<t_pc, stderr, output_file, t_result, t_error>>
    /\ UNCHANGED <<t_video_exists, has_callback, output_writable, model_plan,
                   model_loaded, last_progress>>

\* Lines 336-361: the iterator is exhausted: the result is built, the
\* finally clause restores sys.stderr, the callback gets 100, the result
\* is saved and returned.
TranscribeFinish_NoFinalCallback ==
    /\ t_pc = "segments"
    /\ seg_idx = Len(model_plan.segments)
    /\ model_plan.fails_at # seg_idx + 1
    /\ stderr' = "original"
    /\ UNCHANGED progress_updates
    /\ LET result ==
               TranscriptionResult([i \in 1..seg_idx |-> i],
                                   model_plan.segments, "en")
       IN  IF output_writable
           THEN /\ output_file' = {result}
                /\ t_result' = {result}
                /\ t_pc' = "returned"
                /\ UNCHANGED t_error
           ELSE /\ t_error' = "IOError"
                /\ t_pc' = "raised"
                /\ UNCHANGED <<output_file, t_result>>
    /\ UNCHANGED <<t_video_exists, has_callback, output_writable, model_plan,
                   model_loaded, last_progress, seg_idx, processed_duration>>

TranscribeFinish ==
    /\ t_pc = "segments"
    /\ seg_idx = Len(model_plan.segments)
    /\ model_plan.fails_at # seg_idx + 1
    /\ stderr' = "original"
    /\ progress_updates' = ProgressCallback(100)
    /\ LET result ==
               TranscriptionResult([i \in 1..seg_idx |-> i],
                                   model_plan.segments, "en")
       IN  IF output_writable
           THEN /\ output_file' = {result}
                /\ t_result' = {result}
                /\ t_pc' = "returned"
                /\ UNCHANGED t_error
           ELSE /\ t_error' = "IOError"
                /\ t_pc' = "raised"
                /\ UNCHANGED <<output_file, t_result>>
    /\ UNCHANGED <<t_video_exists, has_callback, output_writable, model_plan,
                   model_loaded, last_progress, seg_idx, processed_duration>>

\* ProgressTracker.parse_line: a progress line the model writes to the
\* intercepted sys.stderr; a repeated percentage is dropped.
StderrLine ==
    /\ t_pc \in {"model", "segments"}
    /\ stderr = "interceptor"
    /\ Len(progress_updates) < MaxProgressUpdates
    /\ \E progress \in TrackedPercents :
           IF progress = last_progress
           THEN UNCHANGED <<last_progress, progress_updates>>
           ELSE /\ last_progress' = progress
                /\ progress_updates' = ProgressCallback(progress)
    /\ UNCHANGED <<t_pc, t_video_exists, has_callback, output_writable,
                   model_plan, model_loaded, stderr, seg_idx,
                   processed_duration, output_file, t_result, t_error>>

NextTranscribe ==
    \/ TranscribeEnter /\ UNCHANGED <<mainVars, activityVars, monitorVars, handlerVars>>
    \/ ModelTranscribe /\ UNCHANGED <<mainVars, activityVars, monitorVars, handlerVars>>
    \/ NextSegment /\ UNCHANGED <<mainVars, activityVars, monitorVars, handlerVars>>
    \/ TranscribeFinish /\ UNCHANGED <<mainVars, activityVars, monitorVars, handlerVars>>
    \/ StderrLine /\ UNCHANGED <<mainVars, activityVars, monitorVars, handlerVars>>

InitTranscribe ==
    /\ InitOf({ShortVideo}, {}, {FALSE})
    /\ ActivityIdle
    /\ MonitorIdle
    /\ HandlerIdle
    /\ \E exists \in BOOLEAN, callback \in BOOLEAN, writable \in BOOLEAN,
          plan \in ModelPlans :
           TranscribeCalled("called", exists, callback, writable, plan)
SpecTranscribe == InitTranscribe /\ [][NextTranscribe]_vars

(***************************************************************************)
(* The analysis service: MessageHandler._handle_analyze and                *)
(* _run_analysis_workflow (analysis_service.py).  Every request comes from *)
(* a connection of its own, so the handlers run as concurrent asyncio       *)
(* tasks: a handler keeps the event loop until it awaits something that is *)
(* not ready.                                                              *)
(***************************************************************************)

\* ServiceState.is_processing_video.
IsProcessingVideo(path) == path \in active_analyses

\* ServiceState.start_analysis.
StartAnalysis(path) == active_analyses \cup {path}

\* ServiceMetrics.record_analysis, as the pair <<total, failed>>.
RecordAnalysis(success) ==
    << total_analyses + 1,
       IF success THEN failed_analyses ELSE failed_analyses + 1 >>

\* MessageHandler._send_message for the job_id of job j, once per type.  It
\* never raises: a closed websocket makes send() raise, which it swallows.
SendMessages(j, types) == job_messages[j] \o types

\* How a workflow can end once it has started: analyze() returns a result
\* without error and the result is saved, analyze() returns a result with
\* error set, VideoAnalyzer() or analyze() raises an Exception, or
\* OutputManager.save_result raises OSError.
WorkflowOutcomes == {"completed", "error_result", "exception", "save_failed"}

\* The terminal messages _execute_analysis and _run_analysis_workflow send,
\* in order.
\* _execute_analysis sends ANALYSIS_COMPLETED whenever analyze() returned;
\* the workflow then sends its own message.
WorkflowMessages(outcome) ==
    CASE outcome = "completed" ->
             <<"ANALYSIS_COMPLETED", "ANALYSIS_COMPLETED">>
      [] outcome = "error_result" ->
             <<"ANALYSIS_COMPLETED", "ANALYSIS_ERROR">>
      [] outcome = "exception" -> <<"ANALYSIS_ERROR">>
      [] outcome = "save_failed" -> <<"ANALYSIS_COMPLETED">>

\* The local variable success of _run_analysis_workflow at the finally.
WorkflowSuccess(outcome) == outcome = "completed"

\* _handle_analyze up to its first suspension, for a request that passed
\* validation.  Acquiring a semaphore with a free permit does not suspend,
\* and neither does start_analysis, which is the first statement of the
\* workflow.
HandleAnalyze(j, path) ==
    /\ job_pc[j] = "unsent"
    /\ \A i \in Jobs : i < j => job_pc[i] # "unsent"
    /\ job_path' = [job_path EXCEPT ![j] = path]
    /\ IF IsProcessingVideo(path)
       THEN /\ job_pc' = [job_pc EXCEPT ![j] = "rejected"]
            /\ job_messages' =
                   [job_messages EXCEPT
                        ![j] = SendMessages(j, <<"ANALYSIS_ERROR">>)]
            /\ UNCHANGED <<analysis_semaphore, active_analyses>>
       ELSE IF analysis_semaphore > 0
       THEN /\ job_pc' = [job_pc EXCEPT ![j] = "running"]
            /\ analysis_semaphore' = analysis_semaphore - 1
            /\ active_analyses' = StartAnalysis(path)
            /\ UNCHANGED job_messages
       ELSE /\ job_pc' = [job_pc EXCEPT ![j] = "waiting"]
            /\ UNCHANGED <<analysis_semaphore, active_analyses, job_messages>>
    /\ UNCHANGED <<max_concurrent_analyses, total_analyses, failed_analyses,
                   job_outcome, job_finishes>>

\* A handler suspended in "async with self.analysis_semaphore" gets the
\* permit another workflow released and runs on into the workflow.
AcquireSemaphore(j) ==
    /\ job_pc[j] = "waiting"
    /\ analysis_semaphore > 0
    /\ analysis_semaphore' = analysis_semaphore - 1
    /\ active_analyses' = StartAnalysis(job_path[j])
    /\ job_pc' = [job_pc EXCEPT ![j] = "running"]
    /\ UNCHANGED <<max_concurrent_analyses, total_analyses, failed_analyses,
                   job_path, job_messages, job_outcome, job_finishes>>

WorkflowEnds_NoFinally(j, outcome) ==
    /\ job_pc[j] = "running"
    /\ job_pc' = [job_pc EXCEPT ![j] = "finished"]
    /\ job_outcome' = [job_outcome EXCEPT ![j] = outcome]
    /\ job_messages' =
           [job_messages EXCEPT
                ![j] = SendMessages(j, WorkflowMessages(outcome))]
    /\ IF outcome = "exception"
       THEN UNCHANGED <<active_analyses, total_analyses, failed_analyses,
                        job_finishes>>
       ELSE /\ active_analyses' = active_analyses \ {job_path[j]}
            /\ total_analyses' = RecordAnalysis(WorkflowSuccess(outcome))[1]
            /\ failed_analyses' = RecordAnalysis(WorkflowSuccess(outcome))[2]
            /\ job_finishes' = [job_finishes EXCEPT ![j] = @ + 1]
    /\ analysis_semaphore' = analysis_semaphore + 1
    /\ UNCHANGED <<max_concurrent_analyses, job_path>>
\* The rest of _run_analysis_workflow once the executor is done with
\* analyze(): the terminal messages, then the finally clause with
\* finish_analysis (discard the path, record the outcome), then the release
\* of the semaphore when "async with" is left.
WorkflowEnds(j, outcome) ==
    /\ job_pc[j] = "running"
    /\ job_pc' = [job_pc EXCEPT ![j] = "finished"]
    /\ job_outcome' = [job_outcome EXCEPT ![j] = outcome]
    /\ job_messages' =
           [job_messages EXCEPT
                ![j] = SendMessages(j, WorkflowMessages(outcome))]
    /\ active_analyses' = active_analyses \ {job_path[j]}
    /\ total_analyses' = RecordAnalysis(WorkflowSuccess(outcome))[1]
    /\ failed_analyses' = RecordAnalysis(WorkflowSuccess(outcome))[2]
    /\ job_finishes' = [job_finishes EXCEPT ![j] = @ + 1]
    /\ analysis_semaphore' = analysis_semaphore + 1
    /\ UNCHANGED <<max_concurrent_analyses, job_path>>

otherThanService ==
    << mainVars, activityVars, monitorVars, transcribeVars, reindexVars,
       stderrVars, loaderVars >>

RequestArrives == \E j \in Jobs, path \in VideoPaths : HandleAnalyze(j, path)
SemaphoreGranted == \E j \in Jobs : AcquireSemaphore(j)
AnalysisEnds == \E j \in Jobs, outcome \in WorkflowOutcomes :
                    WorkflowEnds(j, outcome)

NextService ==
    \/ RequestArrives /\ UNCHANGED otherThanService
    \/ SemaphoreGranted /\ UNCHANGED otherThanService
    \/ AnalysisEnds /\ UNCHANGED otherThanService

InitService ==
    /\ InitOf({ShortVideo}, {}, {FALSE})
    /\ ActivityIdle
    /\ MonitorIdle
    /\ TranscribeIdle
    /\ ReindexIdle
    /\ StderrIdle
    /\ LoaderIdle
    /\ \E limit \in 1..MaxConcurrent : ServiceCreated(limit)
SpecService == InitService /\ [][NextService]_vars

\* The executor thread running analyze() returns or raises in the end, and
\* the event loop resumes every task whose awaited result is ready.
SpecServiceFair ==
    /\ SpecService
    /\ \A j \in Jobs :
        /\ WF_vars(AcquireSemaphore(j) /\ UNCHANGED otherThanService)
        /\ WF_vars((\E outcome \in WorkflowOutcomes : WorkflowEnds(j, outcome))
                   /\ UNCHANGED otherThanService)

(***************************************************************************)
(* Face reindexing: MessageHandler._handle_reindex_faces.                  *)
(***************************************************************************)

\* The ways the awaited batch_add_faces_from_folder can end.
ReindexOutcomes == {"success", "failure", "exception"}

\* The terminal message the handler sends for an outcome.
ReindexMessage(outcome) ==
    IF outcome = "success" THEN "REINDEX_COMPLETE" ELSE "REINDEX_ERROR"

HandleReindexFaces_NoLockCheck(r) ==
    /\ reindex_pc[r] = "unsent"
    /\ \A i \in ReindexRequests : i < r => reindex_pc[i] # "unsent"
    /\ reindex_pc' = [reindex_pc EXCEPT ![r] = "running"]
    /\ reindex_lock' = TRUE
    /\ batch_starts' = batch_starts + 1
    /\ UNCHANGED <<reindex_messages, reindex_outcome>>
\* _handle_reindex_faces up to its first suspension: the check of
\* reindex_lock.locked(), and for a free lock its acquisition, which does
\* not suspend, up to the await of batch_add_faces_from_folder.
HandleReindexFaces(r) ==
    /\ reindex_pc[r] = "unsent"
    /\ \A i \in ReindexRequests : i < r => reindex_pc[i] # "unsent"
    /\ IF reindex_lock
       THEN /\ reindex_pc' = [reindex_pc EXCEPT ![r] = "rejected"]
            /\ reindex_messages' =
                   [reindex_messages EXCEPT ![r] = Append(@, "REINDEX_ERROR")]
            /\ UNCHANGED <<reindex_lock, batch_starts>>
       ELSE /\ reindex_pc' = [reindex_pc EXCEPT ![r] = "running"]
            /\ reindex_lock' = TRUE
            /\ batch_starts' = batch_starts + 1
            /\ UNCHANGED reindex_messages
    /\ UNCHANGED reindex_outcome

\* batch_add_faces_from_folder returns True or False or raises: the handler
\* sends the terminal message, runs its finally clause and leaves
\* "async with self.reindex_lock", which releases the lock.
ReindexEnds(r, outcome) ==
    /\ reindex_pc[r] = "running"
    /\ reindex_pc' = [reindex_pc EXCEPT ![r] = "done"]
    /\ reindex_outcome' = [reindex_outcome EXCEPT ![r] = outcome]
    /\ reindex_messages' =
           [reindex_messages EXCEPT ![r] = Append(@, ReindexMessage(outcome))]
    /\ reindex_lock' = FALSE
    /\ UNCHANGED batch_starts

otherThanReindex ==
    << mainVars, activityVars, monitorVars, transcribeVars, serviceVars,
       stderrVars, loaderVars >>

ReindexArrives == \E r \in ReindexRequests : HandleReindexFaces(r)
ReindexReturns == \E r \in ReindexRequests, outcome \in ReindexOutcomes :
                      ReindexEnds(r, outcome)

NextReindex ==
    \/ ReindexArrives /\ UNCHANGED otherThanReindex
    \/ ReindexReturns /\ UNCHANGED otherThanReindex

InitReindex ==
    /\ InitOf({ShortVideo}, {}, {FALSE})
    /\ ActivityIdle
    /\ MonitorIdle
    /\ TranscribeIdle
    /\ HandlerIdle
SpecReindex == InitReindex /\ [][NextReindex]_vars

(***************************************************************************)
(* Concurrent transcribe calls: MessageHandler._handle_transcribe hands    *)
(* each request to the default executor without any lock, and all of them  *)
(* go through the one TranscriptionService, so the statements of           *)
(* transcribe() that touch sys.stderr interleave between threads.          *)
(***************************************************************************)

\* original_stderr = sys.stderr
SaveStderr(c) ==
    /\ call_pc[c] = "queued"
    /\ original_stderr' = [original_stderr EXCEPT ![c] = sys_stderr]
    /\ call_pc' = [call_pc EXCEPT ![c] = "saved"]
    /\ UNCHANGED <<sys_stderr, call_outcome>>

\* sys.stderr = StderrInterceptor(original_stderr, ...)
InstallInterceptor(c) ==
    /\ call_pc[c] = "saved"
    /\ sys_stderr' = c
    /\ call_pc' = [call_pc EXCEPT ![c] = "transcribing"]
    /\ UNCHANGED <<original_stderr, call_outcome>>

\* The try block ends by return or raise; finally: sys.stderr =
\* original_stderr.
RestoreStderr(c, outcome) ==
    /\ call_pc[c] = "transcribing"
    /\ sys_stderr' = original_stderr[c]
    /\ call_pc' = [call_pc EXCEPT ![c] = "ended"]
    /\ call_outcome' = [call_outcome EXCEPT ![c] = outcome]
    /\ UNCHANGED original_stderr

otherThanStderr ==
    << mainVars, activityVars, monitorVars, transcribeVars, serviceVars,
       reindexVars, loaderVars >>

CallSaves == \E c \in TranscribeCalls : SaveStderr(c)
CallIntercepts == \E c \in TranscribeCalls : InstallInterceptor(c)
CallEnds == \E c \in TranscribeCalls, outcome \in {"returned", "raised"} :
                RestoreStderr(c, outcome)

NextStderr ==
    \/ CallSaves /\ UNCHANGED otherThanStderr
    \/ CallIntercepts /\ UNCHANGED otherThanStderr
    \/ CallEnds /\ UNCHANGED otherThanStderr

InitStderr ==
    /\ InitOf({ShortVideo}, {}, {FALSE})
    /\ ActivityIdle
    /\ MonitorIdle
    /\ TranscribeIdle
    /\ HandlerIdle
SpecStderr == InitStderr /\ [][NextStderr]_vars

(***************************************************************************)
(* Lazy model loading: the property TranscriptionService.model, read by    *)
(* every transcribe call on its executor thread.                           *)
(***************************************************************************)

\* The tests at the top of the property: a model that is there is
\* returned, a load in progress raises RuntimeError("Model is currently
\* being loaded"), otherwise this access goes on to load.
CheckModel(a) ==
    /\ access_pc[a] = "idle"
    /\ access_pc' =
           [access_pc EXCEPT
                ![a] = IF has_model THEN "returned"
                       ELSE IF model_loading THEN "raised_loading"
                       ELSE "claiming"]
    /\ UNCHANGED <<has_model, model_loading, model_cached>>

\* self._model_loading = True, then the test of is_model_cached().
ClaimLoad(a) ==
    /\ access_pc[a] = "claiming"
    /\ model_loading' = TRUE
    /\ access_pc' =
           [access_pc EXCEPT
                ![a] = IF model_cached THEN "constructing" ELSE "downloading"]
    /\ UNCHANGED <<has_model, model_cached>>

\* _download_model_sync returns, or re-raises what snapshot_download
\* raised; the property has no handler, the exception leaves it.
DownloadEnds(a, ok) ==
    /\ access_pc[a] = "downloading"
    /\ IF ok
       THEN /\ model_cached' = TRUE
            /\ access_pc' = [access_pc EXCEPT ![a] = "constructing"]
       ELSE /\ access_pc' = [access_pc EXCEPT ![a] = "raised_download"]
            /\ UNCHANGED model_cached
    /\ UNCHANGED <<has_model, model_loading>>

\* WhisperModel(...) returns, after which _model is set and _model_loading
\* cleared, or raises, which leaves the property at once.
ConstructEnds(a, ok) ==
    /\ access_pc[a] = "constructing"
    /\ IF ok
       THEN /\ has_model' = TRUE
            /\ model_loading' = FALSE
            /\ access_pc' = [access_pc EXCEPT ![a] = "returned"]
       ELSE /\ access_pc' = [access_pc EXCEPT ![a] = "raised_construct"]
            /\ UNCHANGED <<has_model, model_loading>>
    /\ UNCHANGED model_cached

otherThanLoader ==
    << mainVars, activityVars, monitorVars, transcribeVars, serviceVars,
       reindexVars, stderrVars >>

ModelRead == \E a \in ModelAccesses : CheckModel(a)
LoadClaimed == \E a \in ModelAccesses : ClaimLoad(a)
DownloadDone == \E a \in ModelAccesses, ok \in BOOLEAN : DownloadEnds(a, ok)
ConstructDone == \E a \in ModelAccesses, ok \in BOOLEAN : ConstructEnds(a, ok)

NextLoader ==
    \/ ModelRead /\ UNCHANGED otherThanLoader
    \/ LoadClaimed /\ UNCHANGED otherThanLoader
    \/ DownloadDone /\ UNCHANGED otherThanLoader
    \/ ConstructDone /\ UNCHANGED otherThanLoader

InitLoader ==
    /\ InitOf({ShortVideo}, {}, {FALSE})
    /\ ActivityIdle
    /\ MonitorIdle
    /\ TranscribeIdle
    /\ ServiceIdle
    /\ ReindexIdle
    /\ StderrIdle
    /\ \E cached \in BOOLEAN : LoaderCreated(cached)
SpecLoader == InitLoader /\ [][NextLoader]_vars

TypeOK ==
    /\ pc \in {"start", "setup", "open", "pull", "dispatch", "plugin_loop",
               "call", "cleanup", "extend", "post", "done", "raised"}
    /\ callback_raises \in {"never", "always", "updates"}
    /\ Len(batch) <= frame_buffer_limit
    /\ open_handles \subseteq {"scheduler", "generator"}

(***************************************************************************)
(* Properties.                                                             *)
(***************************************************************************)
FrameIdxOf(records) == { records[i].frame_idx : i \in 1..Len(records) }
Last(seq) == seq[Len(seq)]

\* The conditions under which analyze() ends in its except clause.
RunFatal ==
    \/ ~video_exists
    \/ ~can_open
    \/ total_frames = 0
    \/ SchedSampleInterval = 0

\* C1: when a batch's records are about to be appended to frame_analyses,
\* whether its processing returned or raised, no frame dict of the batch
\* holds its pixel buffer any more, and no record of frame_analyses, of the
\* batch's results or of the returned result has a 'frame' entry.
C1_NoPixelBufferInResults ==
    /\ pc = "extend" => \A i \in 1..Len(batch) : "frame" \notin batch[i].keys
    /\ \A i \in 1..Len(frame_analyses) : "frame" \notin frame_analyses[i].keys
    /\ \A i \in 1..Len(result_frames) : "frame" \notin result_frames[i].keys
    /\ pc = "extend" =>
           \A i \in 1..Len(batch_results) : "frame" \notin batch_results[i].keys

C1_Witness ==
    /\ pc = "extend"
    /\ batch # << >>
    /\ batch_results = << >>
    /\ failed_frames # {}
    /\ Len(frame_analyses) >= 2

Ascending(records) ==
    \A i, j \in 1..Len(records) :
        i < j => /\ records[i].frame_idx < records[j].frame_idx
                 /\ records[i].start_time_ms < records[j].start_time_ms

C3_OrderPreserved ==
    /\ Ascending(frame_analyses)
    /\ Ascending(result_frames)
    /\ \A i, j \in 1..Len(yielded) : i < j => yielded[i] < yielded[j]
    /\ FrameIdxOf(frame_analyses) \subseteq { yielded[i] : i \in 1..Len(yielded) }

C3_Witness ==
    /\ pc = "done"
    /\ frame_buffer_limit = 2
    /\ Len(result_frames) = 3
    /\ \E c \in frame_calls : c[3] = "raise" /\ AcceptsVideoPath(c[1])
    /\ \E c \in frame_calls : c[3] = "ok" /\ plugin_mode[c[1]] = "flaky"

\* C4: for a video path that does not exist analyze() goes from its start
\* straight to its return, the result has a non-empty error and no frame
\* records, and no plugin is set up, no frame is read and no analyze_frame
\* call is made.
C4_MissingVideoIsErrorResult ==
    ~video_exists =>
        /\ pc \in {"start", "done"}
        /\ pc = "done" => result_error # "" /\ result_frames = << >>
        /\ \A p \in PluginNames : setup_calls[p] = 0
        /\ frame_calls = {}
        /\ yielded = << >>
        /\ plugins = << >>

C4_Witness ==
    /\ ~video_exists
    /\ pc = "done"
    /\ result_error = "FileNotFoundError"
    /\ Len(callbacks) = 1

\* C5: a run in which every read and every batch succeeded and that
\* returns a result without error has made its last progress-callback
\* invocation with frames_done = frames_total, percent 100.
C5_ProgressEndsAtTotal ==
    (pc = "done" /\ result_error = "" /\ failed_frames = {}
        /\ gen_pos >= total_frames) =>
        /\ Last(callbacks).frames_done = Last(callbacks).frames_total
        /\ Last(callbacks).percent = 100

\* C6: the frames_done arguments of the progress-callback invocations of a
\* run never decrease, whether or not batches failed in between.
C6_FramesDoneMonotonic ==
    \A i, j \in 1..Len(callbacks) :
        i < j => callbacks[i].frames_done <= callbacks[j].frames_done

C6_Witness ==
    /\ pc = "done"
    /\ failed_frames # {}
    /\ Len(callbacks) >= 3
    /\ Last(callbacks).frames_done = 3

\* C7: none of analyze_frame, analyze_scene and get_summary is invoked on a
\* plugin whose setup() raised.
C7_FailedSetupExcluded ==
    \A p \in setup_raises :
        setup_calls[p] > 0 =>
            /\ \A c \in frame_calls : c[1] # p
            /\ \A c \in post_calls : c[1] # p

\* C8: an exception that leaves _process_micro_batch does not end the run:
\* the batch's pixel buffers are released before the loop goes on, the
\* source is consumed to its end, every yielded frame outside the failed
\* batches is in the result, and the result has no error.
C8_BatchFailureDoesNotAbort ==
    failed_frames # {} =>
        /\ pc \in {"extend", "pull", "post", "done"} =>
               \A i \in 1..Len(batch) :
                   batch[i].frame_idx \in failed_frames
                       => "frame" \notin batch[i].keys
        /\ pc \in {"post", "done"} =>
               /\ gen_state = "closed"
               /\ gen_pos >= total_frames \/ gen_pos = read_fails_at
               /\ batch = << >>
               /\ \A k \in 1..Len(yielded) :
                      yielded[k] \in failed_frames
                          \/ yielded[k] \in FrameIdxOf(frame_analyses)
        /\ pc = "done" => result_error = "" /\ result_frames = frame_analyses

C8_Witness ==
    /\ pc = "done"
    /\ result_error = ""
    /\ failed_frames # {}
    /\ \E f \in failed_frames :
           /\ \E i \in 1..Len(result_frames) : result_frames[i].frame_idx > f
           /\ \E i \in 1..Len(result_frames) : result_frames[i].frame_idx < f

\* C9: a frame of a batch whose processing raised after some plugin's call
\* for that frame had returned has its record, with the annotations merged
\* before the exception, in the result.
C9_FailedBatchContributesPartial ==
    (pc = "done" /\ result_error = "") =>
        \A f \in failed_frames :
            (\E c \in frame_calls : c[2] = f /\ c[3] = "ok") =>
                \E i \in 1..Len(result_frames) :
                    /\ result_frames[i].frame_idx = f
                    /\ \A c \in frame_calls :
                           (c[2] = f /\ c[3] = "ok")
                               => PluginKeys(c[1]) \subseteq result_frames[i].keys

\* C10: no analyze_frame call is in flight for longer than
\* plugin_timeout_seconds: a call that has not returned by then is given up.
C10_CallGivenUpAtTimeout ==
    pc = "call" => call_elapsed <= plugin_timeout_seconds

\* The positions of call_log at which method m is invoked on plugin p.
Invocations(m, p) ==
    { i \in 1..Len(call_log) : call_log[i].method = m /\ call_log[i].plugin = p }

FrameCallPositions ==
    { i \in 1..Len(call_log) : call_log[i].method = "analyze_frame" }

PluginSet == { plugins[i] : i \in 1..Len(plugins) }

\* The phase of a run a plugin method belongs to.
Phase(m) ==
    CASE m = "setup" -> 0
      [] m = "analyze_frame" -> 1
      [] OTHER -> 2

\* C11: within one run, setup() is invoked exactly once on every plugin and
\* before the first analyze_frame call of any plugin; analyze_frame is
\* invoked at most once per plugin and frame; analyze_scene (on the plugins
\* that have it) and get_summary are invoked exactly once per plugin in a
\* run that returns a result, and never before an analyze_frame call.  The
\* log only grows, so the order of a whole run is read off where it ends.
C11_LifecycleOrder ==
    /\ (pc # "done" /\ call_log # << >>) =>
           Phase(Last(call_log).method) < 2
    /\ pc \in {"open", "pull"} =>
           \A p \in PluginSet : Cardinality(Invocations("setup", p)) = 1
    /\ pc = "done" =>
           /\ \A p \in PluginNames : Cardinality(Invocations("setup", p)) <= 1
           /\ \A i \in 1..(Len(call_log) - 1) :
                  Phase(call_log[i].method) <= Phase(call_log[i + 1].method)
           /\ Cardinality({ <<call_log[i].plugin, call_log[i].frame_idx>> :
                               i \in FrameCallPositions })
                  = Cardinality(FrameCallPositions)
           /\ result_error = "" =>
                  \A p \in PluginSet :
                      /\ Cardinality(Invocations("setup", p)) = 1
                      /\ Cardinality(Invocations("get_summary", p)) = 1
                      /\ HasAnalyzeScene(p) =>
                             Cardinality(Invocations("analyze_scene", p)) = 1

C11_Witness ==
    /\ pc = "done"
    /\ result_error = ""
    /\ Len(plugins) = Len(PluginModuleMap)
    /\ Cardinality(Invocations("analyze_frame", "EnvironmentPlugin")) >= 3
    /\ Cardinality(Invocations("analyze_scene", "EnvironmentPlugin")) = 1
    /\ failed_frames # {}

\* The frames on which analyze_frame of plugin p was invoked.
FramesCalled(p) == { c[2] : c \in { d \in frame_calls : d[1] = p } }

\* C12: whatever plugin_skip_interval says, a critical plugin is invoked on
\* every frame of a batch once the plugin loop has passed it, hence on every
\* sampled frame outside the failed batches; a non-critical plugin with a
\* positive interval k (3 for TextDetectionPlugin) has been invoked on
\* floor(n / k) of the n frames it was asked about, which are all F sampled
\* frames when no batch failed, and the records of the frames it skipped
\* have none of its keys.
C12_SkipPolicy ==
    /\ pc = "plugin_loop" =>
           \A k \in 1..(pi - 1) :
               plugins[k] \in critical_plugins =>
                   \A i \in 1..Len(batch) :
                       batch[i].frame_idx \in FramesCalled(plugins[k])
    /\ pc = "done" =>
           /\ \A p \in PluginSet \cap critical_plugins :
                  \A k \in 1..Len(yielded) :
                      yielded[k] \in failed_frames \/ yielded[k] \in FramesCalled(p)
           /\ \A p \in PluginSet \ critical_plugins :
                  plugin_skip_interval[p] > 0 =>
                      /\ Cardinality(FramesCalled(p))
                             = plugin_frame_counters[p] \div plugin_skip_interval[p]
                      /\ failed_frames = {} =>
                             plugin_frame_counters[p] = Len(yielded)
                      /\ \A i \in 1..Len(result_frames) :
                             result_frames[i].frame_idx \notin FramesCalled(p)
                                 => PluginKeys(p) \cap result_frames[i].keys = {}

C12_Witness ==
    /\ pc = "done"
    /\ failed_frames = {}
    /\ Len(yielded) = 4
    /\ plugin_skip_interval["TextDetectionPlugin"] = 3
    /\ FramesCalled("TextDetectionPlugin") = {yielded[3]}
    /\ "detected_text" \in result_frames[3].keys
    /\ "detected_text" \notin result_frames[4].keys
    /\ FramesCalled("ObjectDetectionPlugin") = FrameIdxOf(result_frames)

\* The generator has run through its whole range: the capture opened, it
\* reported at least one frame, and no read failed.
RangeExhausted ==
    /\ gen_state = "closed"
    /\ can_open
    /\ total_frames >= 1
    /\ gen_pos >= total_frames

\* C13 as stated: once the source is exhausted without a failed read it has
\* yielded floor(T / s) + 1 frames, the scheduler's frames_total, for every T
\* and s.
C13_YieldCountIsFloorPlusOne ==
    RangeExhausted =>
        /\ Len(yielded) = (total_frames \div SchedSampleInterval) + 1
        /\ Len(yielded) = total_sampled

\* C13, amended: once the source is exhausted without a failed read it has
\* yielded ceil(T / s) = floor((T - 1) / s) + 1 frames; the scheduler's
\* frames_total, floor(T / s) + 1, is that number when s does not divide T
\* and one more when s divides T.
C13_YieldCountIsCeiling ==
    RangeExhausted =>
        /\ Len(yielded) = ((total_frames - 1) \div SchedSampleInterval) + 1
        /\ total_frames % SchedSampleInterval # 0 => total_sampled = Len(yielded)
        /\ total_frames % SchedSampleInterval = 0
               => total_sampled = Len(yielded) + 1

C13_Witness ==
    /\ pc = "done"
    /\ RangeExhausted
    /\ SchedSampleInterval = 2
    /\ total_frames = 4
    /\ Len(yielded) = 2
    /\ total_sampled = 3

\* The ten second clip has been analysed to its end and no batch failed.
ScenarioRunCompleted ==
    /\ <<fps, interval_tenths, total_frames>> = ScenarioVideo
    /\ pc = "done"
    /\ result_error = ""
    /\ RangeExhausted
    /\ failed_frames = {}

FrameIdxSeq(records) == [i \in 1..Len(records) |-> records[i].frame_idx]

\* C14 as stated: the analysis of the 300-frame clip at 30 fps with a 2 s
\* interval returns 6 records, frame_idx 0, 60, 120, 180, 240, 300, with
\* strictly increasing start_time_ms.
C14_ScenarioHasSixRecords ==
    ScenarioRunCompleted =>
        /\ Len(result_frames) = 6
        /\ FrameIdxSeq(result_frames) = <<0, 60, 120, 180, 240, 300>>
        /\ \A i \in 1..(Len(result_frames) - 1) :
               result_frames[i].start_time_ms < result_frames[i + 1].start_time_ms

\* C14, amended: it returns 5 records, frame_idx 0, 60, 120, 180, 240 (the
\* position 300 is not a frame of the clip), with strictly increasing
\* start_time_ms.
C14_ScenarioHasFiveRecords ==
    ScenarioRunCompleted =>
        /\ Len(result_frames) = 5
        /\ FrameIdxSeq(result_frames) = <<0, 60, 120, 180, 240>>
        /\ \A i \in 1..(Len(result_frames) - 1) :
               result_frames[i].start_time_ms < result_frames[i + 1].start_time_ms

C14_Witness ==
    /\ ScenarioRunCompleted
    /\ Len(result_frames) = 5
    /\ result_frames[5].start_time_ms = 8000
    /\ result_frames[5].end_time_ms = 10000
    /\ "objects" \in result_frames[5].keys

\* Frame a was yielded immediately before frame b.
YieldedNext(a, b) ==
    \E k \in 1..(Len(yielded) - 1) : yielded[k] = a /\ yielded[k + 1] = b

RoundedProduct == RoundHalfEven(fps * interval_tenths, 10)
TruncatedProduct == (fps * interval_tenths) \div 10

\* C16 as stated: the i-th sample (counted from 0) is read at native
\* position i * round(fps * sample_interval_seconds).
C16_PositionsUseRoundedStep ==
    \A i \in 1..Len(yielded) : yielded[i] = (i - 1) * RoundedProduct

\* C16, amended: the i-th sample (counted from 0) is read at native position
\* i * max(1, floor(fps * sample_interval_seconds)): the product is
\* truncated, not rounded.  The positions start at 0, stay below the native
\* frame count, and stop only when the next one would reach it.
C16_PositionsUseTruncatedStep ==
    /\ \A i \in 1..Len(yielded) :
           /\ yielded[i] = (i - 1) * Max(1, TruncatedProduct)
           /\ yielded[i] < total_frames
    /\ RangeExhausted => Len(yielded) * Max(1, TruncatedProduct) >= total_frames

C16_Witness ==
    /\ pc = "done"
    /\ RangeExhausted
    /\ fps = 3
    /\ interval_tenths = 5
    /\ RoundedProduct = 2
    /\ yielded = <<0, 1, 2>>

\* C17: a run for which load_plugins produced no plugin at all ends with a
\* non-empty error in its result.
C17_ZeroPluginsIsRunFatal ==
    (pc = "done" /\ plugin_definitions = << >>) => result_error # ""

\* Neither analyze_scene nor get_results of plugin p raises.
SceneCallsReturn(p) == \A f \in scene_raises : f[1] # p

C19_RunningDetected ==
    (/\ act_pc = "summarized"
     /\ n_frames > 0
     /\ ~objects_missing
     /\ 10 * object_counts["person"] > 5 * n_frames
     /\ 10 * object_counts["bicycle"] < n_frames
     /\ 10 * object_counts["motorcycle"] < n_frames
     /\ 10 * (object_counts["car"] + object_counts["bicycle"]
                 + object_counts["motorcycle"]) < 2 * n_frames) =>
        /\ \E i \in 1..Len(detected_activities) :
               /\ detected_activities[i].activity = "running"
               /\ detected_activities[i].confidence
                      = Min(7 * object_counts["person"], 10 * n_frames)
        /\ \A i \in 1..(Len(detected_activities) - 1) :
               detected_activities[i].confidence
                   >= detected_activities[i + 1].confidence
        /\ primary_activity = detected_activities[1].activity

\* The generator stopped at a failed read after at least one frame.
ReadFailedMidStream ==
    /\ gen_state = "closed"
    /\ can_open
    /\ 0 < gen_pos
    /\ gen_pos < total_frames
    /\ gen_pos = read_fails_at

\* C20: a failed read at sample k > 0 ends the stream like its natural end:
\* exactly the k frames before it were yielded, no frame is left waiting in
\* the batch, every yielded frame outside a failed batch has its record in
\* frame_analyses (all of them, in order, when no batch failed), and the
\* result has no error.
C20_FailedReadEndsStream ==
    ReadFailedMidStream =>
        /\ Len(yielded) * GenSampleInterval(fps, interval_tenths) = gen_pos
        /\ pc \in {"post", "done"} =>
               /\ batch = << >>
               /\ \A k \in 1..Len(yielded) :
                      \/ yielded[k] \in failed_frames
                      \/ yielded[k] \in FrameIdxOf(frame_analyses)
               /\ failed_frames = {} => FrameIdxSeq(frame_analyses) = yielded
        /\ pc = "done" => result_error = "" /\ result_frames = frame_analyses

C20_Witness ==
    /\ pc = "done"
    /\ ReadFailedMidStream
    /\ frame_buffer_limit = 2
    /\ read_fails_at = 3
    /\ FrameIdxSeq(result_frames) = <<0, 1, 2>>
    /\ result_error = ""

\* C21: the capture of the generator is released however the sequence ends,
\* and when analyze() has returned no capture handle is open.
C21_HandlesReleased ==
    /\ gen_state = "closed" => "generator" \notin open_handles
    /\ pc = "done" => open_handles = {}

\* The reference moment of the rate limit for the i-th force_cleanup call:
\* the latest earlier call that performed a collection, or construction.
PerformedBefore(i) == { j \in 1..(i - 1) : cleanup_calls[j].performed }

ReferenceTime(i) ==
    IF PerformedBefore(i) = {}
    THEN mon_created
    ELSE cleanup_calls[CHOOSE j \in PerformedBefore(i) :
                           \A k \in PerformedBefore(i) : k <= j].at

\* C22: a non-aggressive force_cleanup call collects only when at least 5
\* seconds have passed since the previous performed collection (or since
\* construction); an aggressive call always collects; with
\* enable_aggressive_gc off no call collects; cleanup_count counts the
\* performed collections.
C22_CleanupRateLimited ==
    /\ \A i \in 1..Len(cleanup_calls) :
           LET c == cleanup_calls[i]
           IN  /\ (c.performed /\ ~c.aggressive) =>
                      c.at - ReferenceTime(i) >= CleanupRateLimitSeconds
               /\ (enable_aggressive_gc /\ c.aggressive) => c.performed
               /\ ~enable_aggressive_gc => ~c.performed
    /\ cleanup_count =
           Cardinality({ i \in 1..Len(cleanup_calls) : cleanup_calls[i].performed })

\* An aggressive call collected inside the 5 second window, a plain call
\* inside the window after it was skipped and a later plain call collected.
C22_Witness ==
    /\ enable_aggressive_gc
    /\ Len(cleanup_calls) = 3
    /\ cleanup_calls[1].aggressive /\ cleanup_calls[1].performed
    /\ cleanup_calls[1].at - mon_created < CleanupRateLimitSeconds
    /\ ~cleanup_calls[2].aggressive /\ ~cleanup_calls[2].performed
    /\ ~cleanup_calls[3].aggressive /\ cleanup_calls[3].performed
    /\ cleanup_count = 2

\* C23: a transcribe call with a progress callback that returns a result,
\* from the normal path or from the no-audio fallback, has invoked the
\* callback at least once and its last invocation reported 100.
C23_LastProgressIs100 ==
    (t_pc = "returned" /\ has_callback) =>
        /\ progress_updates # << >>
        /\ progress_updates[Len(progress_updates)] = 100

\* A normal transcription whose segment progress stayed below 100 and
\* whose stderr progress line was forwarded.
C23_Witness ==
    /\ t_pc = "returned"
    /\ has_callback
    /\ model_plan.fails_at = -1
    /\ Len(progress_updates) >= 4
    /\ \E i \in 1..Len(progress_updates) : progress_updates[i] = 33
    /\ \E i \in 1..Len(progress_updates) : progress_updates[i] = 50

\* The model raised its planned exception during this call.
ModelRaised ==
    /\ t_video_exists
    /\ model_plan.fails_at >= 0
    /\ t_pc \in {"returned", "raised"}

\* The messages of ModelErrors that say the audio is missing.
MissingAudioMessages ==
    { <<"No", "audio", "streams", "found">>,
      <<"Failed", "to", "load", "audio">>,
      <<"tuple", "index", "out", "of", "range">> }

SavedEmptyResult ==
    /\ t_pc = "returned"
    /\ t_result = {[text |-> << >>, segments |-> << >>, language |-> "N/A"]}
    /\ output_file = t_result

\* C24 as stated: a RuntimeError or IndexError of the model whose message
\* indicates missing audio never makes transcribe raise: the empty result
\* is saved and returned; any other RuntimeError or IndexError propagates
\* and no result file is written.
C24_NoAudioNeverRaises ==
    (ModelRaised /\ model_plan.exc \in {"RuntimeError", "IndexError"}) =>
        IF model_plan.message \in MissingAudioMessages
        THEN SavedEmptyResult
        ELSE t_pc = "raised" /\ t_error = model_plan.exc /\ output_file = {}

\* C24 amended: with a missing-audio message the empty result is saved and
\* returned when the result file can be written, and the IOError of the
\* failed write propagates otherwise; any other RuntimeError or IndexError
\* propagates and no result file is written.
C24_NoAudioFallback ==
    (ModelRaised /\ model_plan.exc \in {"RuntimeError", "IndexError"}) =>
        IF model_plan.message \in MissingAudioMessages
        THEN IF output_writable
             THEN SavedEmptyResult
             ELSE t_pc = "raised" /\ t_error = "IOError" /\ output_file = {}
        ELSE t_pc = "raised" /\ t_error = model_plan.exc /\ output_file = {}

\* The iterator raised "Failed to load audio" after one segment had been
\* processed and the empty result was saved and returned.
C24_Witness ==
    /\ ModelRaised
    /\ model_plan.message = <<"Failed", "to", "load", "audio">>
    /\ model_plan.fails_at = 2
    /\ seg_idx = 1
    /\ SavedEmptyResult

\* C25: when the video path does not exist transcribe raises
\* FileNotFoundError and at no moment of the call has the callback been
\* invoked, the model been loaded, sys.stderr been replaced or a file or
\* result been produced.
C25_MissingVideoTouchesNothing ==
    ~t_video_exists =>
        /\ progress_updates = << >>
        /\ ~model_loaded
        /\ stderr = "original"
        /\ output_file = {}
        /\ t_result = {}
        /\ last_progress = -1
        /\ t_pc \in {"called", "raised"}
        /\ t_pc = "raised" => t_error = "FileNotFoundError"

C25_Witness ==
    /\ ~t_video_exists
    /\ has_callback
    /\ output_writable
    /\ t_pc = "raised"
    /\ t_error = "FileNotFoundError"

\* The frame dicts of the batch that still hold their pixel buffer.
HeldBuffers == { i \in 1..Len(batch) : "frame" \in batch[i].keys }

\* C26: at most frame_buffer_limit frame dicts hold a pixel buffer; the
\* batch always consists of the frames the source yielded last, so no frame
\* is pulled while a batch is dispatched or cleaned; and whenever the loop
\* is about to pull, the batch is below the limit and holds only frames
\* that were never dispatched, the buffers of the previous batch having been
\* released and the batch emptied.
C26_BatchesDoNotOverlap ==
    /\ Cardinality(HeldBuffers) <= frame_buffer_limit
    /\ Len(batch) <= Len(yielded)
    /\ FrameIdxSeq(batch) =
           SubSeq(yielded, Len(yielded) - Len(batch) + 1, Len(yielded))
    /\ pc = "pull" =>
           /\ Len(batch) < frame_buffer_limit
           /\ HeldBuffers = 1..Len(batch)
           /\ \A i \in 1..Len(batch) :
                  /\ batch[i].frame_idx \notin FrameIdxOf(frame_analyses)
                  /\ batch[i].frame_idx \notin failed_frames
                  /\ \A c \in frame_calls : c[2] # batch[i].frame_idx
    /\ pc \in {"dispatch", "plugin_loop", "call"} =>
           HeldBuffers = 1..Len(batch)
    /\ pc = "extend" => HeldBuffers = {}

\* The second full batch is being processed after the first was cleaned
\* and its records appended.
C26_Witness ==
    /\ pc = "call"
    /\ frame_buffer_limit = 2
    /\ Len(batch) = 2
    /\ Len(frame_analyses) = 2
    /\ Len(yielded) = 4
    /\ HeldBuffers = {1, 2}

\* C27: in a run without a batch-level exception every yielded frame has
\* exactly one record in frame_analyses once post-processing starts, in
\* yield order, and the result returns them; the frames of the final
\* partial batch were dispatched to the plugins and their buffers released
\* before post-processing, with nothing left in the batch.
C27_EveryFrameExactlyOnce ==
    /\ (is_final /\ pc \in {"dispatch", "plugin_loop", "call", "cleanup"}) =>
           /\ gen_state = "closed"
           /\ post_calls = {}
    /\ (pc \in {"post", "done"} /\ failed_frames = {} /\ result_error = "") =>
           /\ batch = << >>
           /\ Len(frame_analyses) = Len(yielded)
           /\ \A k \in 1..Len(yielded) :
                  /\ frame_analyses[k].frame_idx = yielded[k]
                  /\ "frame" \notin frame_analyses[k].keys
                  /\ \A p \in PluginSet \cap critical_plugins :
                         yielded[k] \in FramesCalled(p)
           /\ Cardinality(FrameIdxOf(frame_analyses)) = Len(yielded)
           /\ pc = "done" => result_frames = frame_analyses

\* Three frames with a buffer limit of two: a full batch and a final
\* partial batch of one frame, no failure.
C27_Witness ==
    /\ pc = "done"
    /\ result_error = ""
    /\ failed_frames = {}
    /\ frame_buffer_limit = 2
    /\ is_final
    /\ Len(yielded) = 3
    /\ FrameIdxSeq(result_frames) = yielded
    /\ plugins # << >>

\* The place of plugin p in the registration order of load_plugins.
RegistrationIndex(p) ==
    CHOOSE k \in 1..Len(PluginModuleMap) : PluginModuleMap[k] = p

\* The annotation keys merged so far for frame f: those of the plugins
\* whose analyze_frame call for f returned.
MergedKeys(f) ==
    UNION { PluginKeys(c[1]) : c \in { d \in frame_calls : d[2] = f /\ d[3] = "ok" } }

\* C28: self.plugins is in registration order; when analyze_frame of a
\* plugin is in flight for a frame, it is the only call not yet completed,
\* every plugin already invoked for that frame is earlier in the
\* registration order, and the annotations argument is the record of that
\* very frame holding the base keys and exactly the keys merged for that
\* frame by the earlier plugins.
C28_ChainOrderAndArgument ==
    /\ \A i, j \in 1..Len(plugins) :
           i < j => RegistrationIndex(plugins[i]) < RegistrationIndex(plugins[j])
    /\ pc = "call" =>
           LET p == plugins[pi]
               f == batch[fi].frame_idx
           IN  /\ \A c \in frame_calls :
                      /\ c[2] = f =>
                             RegistrationIndex(c[1]) < RegistrationIndex(p)
                      /\ c[1] = p => c[2] # f
               /\ results[fi].frame_idx = f
               /\ results[fi].start_time_ms = batch[fi].timestamp_ms
               /\ results[fi].keys = RecordBaseKeys \cup MergedKeys(f)
               /\ Len(results) = Len(batch)
    /\ pc # "call" => call_elapsed = 0

\* EnvironmentPlugin is called for the second frame of a batch with the
\* annotations of the two detectors before it, and DominantColorPlugin was
\* skipped for the first frame of the batch but ran on this one.
C28_Witness ==
    /\ pc = "call"
    /\ plugins[pi] = "EnvironmentPlugin"
    /\ fi = 2
    /\ results[2].keys =
           RecordBaseKeys \cup {"objects", "faces", "dominant_color", "color_palette"}
    /\ "dominant_color" \notin results[1].keys
    /\ <<"ShotTypePlugin", batch[2].frame_idx, "raise">> \in frame_calls

\* The place of the frame of batch[i] in the sequence of yielded frames.
YieldPosition(i) == Len(yielded) - Len(batch) + i

\* C29: while no batch has failed, a non-critical plugin with interval
\* N >= 1 is asked once per sampled frame, in yield order across batches,
\* and is invoked on the j-th sampled frame exactly when j mod N = 0,
\* whatever the frame's frame_idx and whatever the other plugins' calls
\* did; with the default interval 1 of a plugin absent from the map that
\* is every frame.
C29_SkipByPositionOnly ==
    /\ (pc = "call" /\ failed_frames = {}
          /\ plugins[pi] \notin critical_plugins) =>
           /\ plugin_skip_interval[plugins[pi]] >= 1
           /\ YieldPosition(fi) % plugin_skip_interval[plugins[pi]] = 0
    /\ (pc = "done" /\ failed_frames = {} /\ result_error = "") =>
           \A p \in PluginSet \ critical_plugins :
               plugin_skip_interval[p] >= 1 =>
                   FramesCalled(p) =
                       { yielded[j] : j \in { k \in 1..Len(yielded) :
                                                 k % plugin_skip_interval[p] = 0 } }

\* Four frames were yielded in batches of two: the plugin with interval 3
\* ran on the third only (frame_idx 2), the one with interval 2 on the
\* second and fourth (frame_idx 1 and 3, not the even frame_idx 0 and 2), a
\* plugin absent from the map on all, while another plugin's calls raised.
C29_Witness ==
    /\ pc = "done"
    /\ failed_frames = {}
    /\ result_error = ""
    /\ frame_buffer_limit = 2
    /\ yielded = <<0, 1, 2, 3>>
    /\ plugin_skip_interval["TextDetectionPlugin"] = 3
    /\ FramesCalled("TextDetectionPlugin") = {2}
    /\ FramesCalled("DominantColorPlugin") = {1, 3}
    /\ FramesCalled("EnvironmentPlugin") = {0, 1, 2, 3}
    /\ \E c \in frame_calls : c[3] = "raise"

\* C30: the annotations argument of every analyze_frame call carries the
\* scale_factor the source recorded in the frame dict.
C30_ScaleFactorReachesPlugins ==
    pc = "call" =>
        /\ "scale_factor" \in batch[fi].keys
        /\ "scale_factor" \in results[fi].keys

\* C31: every analyze_frame call of ShotTypePlugin comes after the call of
\* FaceRecognitionPlugin for the same frame and returns, and every record
\* of the result carries shot_type.
C31_ShotTypeAnnotated ==
    /\ \A c \in frame_calls : c[1] = "ShotTypePlugin" => c[3] = "ok"
    /\ (pc = "call" /\ plugins[pi] = "ShotTypePlugin"
          /\ "FaceRecognitionPlugin" \in PluginSet) =>
           \E c \in frame_calls :
               c[1] = "FaceRecognitionPlugin" /\ c[2] = batch[fi].frame_idx
    /\ (pc = "done" /\ "ShotTypePlugin" \in PluginSet) =>
           \A i \in 1..Len(result_frames) :
               "shot_type" \in result_frames[i].keys

\* C32: analyze() never ends by raising, whatever the progress callback
\* does on any of its invocations: a run always ends with a result.
C32_CallbackErrorsContained ==
    pc # "raised"

\* summary['plugin_performance'] of the result a finished run returns.
PluginPerformance ==
    GetPluginPerformanceSummary(call_log, plugin_metrics, plugin_errors,
                                plugin_timeouts)

\* C33: the plugin_performance of a returned result is a list with exactly
\* one entry per plugin that completed an analyze_frame call; an entry's
\* frames_processed is the number of that plugin's calls that returned and
\* its error_count the number of its calls that raised.
C33_PerformanceSummaryComplete ==
    (pc = "done" /\ result_error = "") =>
        LET perf == PluginPerformance
            named == { perf.entries[i].plugin_name : i \in 1..Len(perf.entries) }
        IN  /\ named = { c[1] : c \in { d \in frame_calls : d[3] = "ok" } }
            /\ Cardinality(named) = Len(perf.entries)
            /\ \A i \in 1..Len(perf.entries) :
                   LET e == perf.entries[i]
                   IN  /\ e.frames_processed =
                              Cardinality({ c \in frame_calls :
                                              c[1] = e.plugin_name /\ c[3] = "ok" })
                       /\ e.error_count =
                              Cardinality({ c \in frame_calls :
                                              c[1] = e.plugin_name /\ c[3] = "raise" })

\* C34: when fps * sample_interval_seconds is below 1 the step is one
\* native frame, and a run on a video that exists, opens and reads without
\* failure returns a result without error holding one record per native
\* frame outside the failed batches.
C34_SubFrameIntervalSamplesEveryFrame ==
    (/\ pc = "done"
     /\ video_exists /\ can_open /\ total_frames >= 1
     /\ fps * interval_tenths < 10) =>
        /\ GenSampleInterval(fps, interval_tenths) = 1
        /\ result_error = ""
        /\ (read_fails_at = -1 /\ failed_frames = {}) =>
               FrameIdxSeq(result_frames) = [i \in 1..total_frames |-> i - 1]

\* The workflows for a path that were admitted and have not finished.
AdmittedUnfinished(path) ==
    { j \in Jobs : job_pc[j] \in {"waiting", "running"} /\ job_path[j] = path }

\* C35: at any time at most one analysis workflow per normalized video
\* path is admitted and not yet finished, whether it waits on the semaphore
\* or runs.
C35_OneWorkflowPerPath ==
    \A path \in VideoPaths : Cardinality(AdmittedUnfinished(path)) <= 1

\* C36: exactly one terminal message is sent for the job_id of an admitted
\* analyze request: ANALYSIS_COMPLETED when the result has no error,
\* ANALYSIS_ERROR otherwise.
C36_OneTerminalMessage ==
    \A j \in Jobs :
        job_pc[j] = "finished" =>
            job_messages[j] =
                IF job_outcome[j] = "completed"
                THEN <<"ANALYSIS_COMPLETED">>
                ELSE <<"ANALYSIS_ERROR">>

\* The workflows that called start_analysis, and those that left the
\* workflow.
StartedJobs == { j \in Jobs : job_pc[j] \in {"running", "finished"} }
FinishedJobs == { j \in Jobs : job_pc[j] = "finished" }

FinishAccounting ==
    /\ \A j \in Jobs :
           job_finishes[j] = IF j \in FinishedJobs THEN 1 ELSE 0
    /\ Cardinality(StartedJobs \ FinishedJobs) <= max_concurrent_analyses
    /\ total_analyses = Cardinality(FinishedJobs)
    /\ failed_analyses =
           Cardinality({ j \in FinishedJobs : job_outcome[j] # "completed" })

\* C37: every workflow that called start_analysis calls finish_analysis
\* exactly once in the end, whatever its outcome; at most
\* max_concurrent_analyses workflows are between start and finish; and
\* total_analyses counts the finished workflows, failed_analyses those of
\* them that did not complete successfully.
C37_EveryStartFinishesOnce ==
    /\ []FinishAccounting
    /\ \A j \in Jobs : []<>(job_pc[j] # "running")

\* All requests were admitted and have finished: one completed, one raised
\* an exception, one returned an error result.
C37_Witness ==
    /\ FinishedJobs = Jobs
    /\ \E j \in Jobs : job_outcome[j] = "completed"
    /\ \E j \in Jobs : job_outcome[j] = "exception"
    /\ \E j \in Jobs : job_outcome[j] = "error_result"
    /\ total_analyses = MaxJobs
    /\ failed_analyses = MaxJobs - 1

RunningReindexes == { r \in ReindexRequests : reindex_pc[r] = "running" }

\* C38: at most one face reindex runs at a time; a request that arrives
\* while the lock is held gets REINDEX_ERROR and never starts
\* batch_add_faces_from_folder; the lock is held exactly while a reindex
\* runs, so it is free again after success, failure result and exception.
C38_ReindexExclusive ==
    /\ Cardinality(RunningReindexes) <= 1
    /\ reindex_lock = (RunningReindexes # {})
    /\ batch_starts =
           Cardinality({ r \in ReindexRequests :
                           reindex_pc[r] \in {"running", "done"} })
    /\ \A r \in ReindexRequests :
           /\ reindex_pc[r] = "rejected" =>
                  reindex_messages[r] = <<"REINDEX_ERROR">>
           /\ reindex_pc[r] = "done" =>
                  reindex_messages[r] = << ReindexMessage(reindex_outcome[r]) >>

\* The first reindex raised, a request that arrived meanwhile was turned
\* away, and a later request got the lock and runs.
C38_Witness ==
    /\ reindex_pc[1] = "done" /\ reindex_outcome[1] = "exception"
    /\ reindex_pc[2] = "rejected"
    /\ reindex_pc[3] = "running"
    /\ reindex_lock

\* C39: once no transcribe call is in flight, sys.stderr is again the
\* stream it was before the first call started.
C39_StderrRestored ==
    (\A c \in TranscribeCalls : call_pc[c] \in {"queued", "ended"}) =>
        sys_stderr = 0

\* The accesses that are inside a load: downloading or constructing.
LoadsInProgress ==
    { a \in ModelAccesses : access_pc[a] \in {"downloading", "constructing"} }

\* C40: _model_loading is true only while a load is in progress; an access
\* that finds it true with no load in progress is turned away with "Model
\* is currently being loaded" instead of retrying.
C40_LoadingOnlyWhileLoading == model_loading => LoadsInProgress # {}

====
